---- MODULE Spec2Model ----
(***************************************************************************)
(* A model of the relation-tree builder of lsst.daf.relation: relations    *)
(* are immutable trees, and every operation's apply() is a pure function   *)
(* from a target tree (and keyword arguments) to a new tree or an          *)
(* exception.  The operators below follow the Python methods one by one;   *)
(* the state machine at the end lets a client call them in any order.      *)
(***************************************************************************)
EXTENDS Integers, Sequences, FiniteSets, TLC

(***************************************************************************)
(* Python values.                                                          *)
(***************************************************************************)

\* `None` where the code has `int | None` (max_rows, Slice.stop).
NoneInt == -1

\* `None` / a value where the code has an optional set (Join.max_columns,
\* Deduplication.unique_key): the empty set, or the singleton of the value.
None == {}
Some(x) == {x}
TheValue(opt) == CHOOSE x \in opt : TRUE

\* `preferred_engine=None`.
NoEngine == "None"

\* What a call produced when it did not return a relation.
Raise(e) == [kind |-> "error", error |-> e]
PyNone == [kind |-> "None"]
IsError(x) == "error" \in DOMAIN x
IsNone(x) == x.kind = "None"
IsRelation(x) == x.kind \in {"leaf", "unary", "binary"}

Min(x, y) == IF x <= y THEN x ELSE y

(***************************************************************************)
(* Engines, column tags and column expressions.                            *)
(***************************************************************************)

Engines == {"sql", "iteration"}

ColumnTags == {"a", "b", "c"}

\* ColumnTag.is_key
is_key(tag) == tag \in {"a", "b"}

\* A column expression or predicate, as far as the relation classes look at
\* it: the columns it needs, the engines that can evaluate it, and (for a
\* predicate) whether it is the literal False.  A predicate is a conjunction
\* of atoms, one per required column; no atoms and not False is literal True.
Expression(columns, engines) ==
    [columns_required |-> columns, supported_by |-> engines, is_false |-> FALSE]

LiteralTrue == Expression({}, Engines)
LiteralFalse == [columns_required |-> {}, supported_by |-> Engines, is_false |-> TRUE]

\* Predicate.as_trivial(): "True", "False" or "None".
as_trivial(predicate) ==
    IF predicate.is_false THEN "False"
    ELSE IF predicate.columns_required = {} THEN "True"
    ELSE "None"

\* Predicate.logical_and(*operands), with nested ANDs flattened.
logical_and(p, q) ==
    [columns_required |-> p.columns_required \cup q.columns_required,
     supported_by |-> p.supported_by \cap q.supported_by,
     is_false |-> p.is_false \/ q.is_false]

is_supported_by(expression, engine) == engine \in expression.supported_by

(***************************************************************************)
(* Operations (frozen dataclasses).                                        *)
(***************************************************************************)

Calculation(tag, expression) ==
    [type |-> "Calculation", tag |-> tag, expression |-> expression]
Projection(columns) == [type |-> "Projection", columns |-> columns]
Selection(predicate) == [type |-> "Selection", predicate |-> predicate]
Deduplication(unique_key) == [type |-> "Deduplication", unique_key |-> unique_key]
SortTerm(expression, ascending) == [expression |-> expression, ascending |-> ascending]
Sort(terms) == [type |-> "Sort", terms |-> terms]
Slice(start, stop) == [type |-> "Slice", start |-> start, stop |-> stop]
Materialization(name) == [type |-> "Materialization", name |-> name]
Transfer(destination) == [type |-> "Transfer", destination |-> destination]
Identity == [type |-> "Identity"]
Join(predicate, min_columns, max_columns) ==
    [type |-> "Join", predicate |-> predicate,
     min_columns |-> min_columns, max_columns |-> max_columns]
Chain == [type |-> "Chain"]
PartialJoin(binary, fixed, fixed_is_lhs) ==
    [type |-> "PartialJoin", binary |-> binary, fixed |-> fixed,
     fixed_is_lhs |-> fixed_is_lhs]

\* Join.common_columns is available exactly when the join is resolved.
JoinResolved(join) == join.max_columns = Some(join.min_columns)

\* UnaryOperation.columns_required and its overrides.
columns_required(operation) ==
    CASE operation.type = "Calculation" -> operation.expression.columns_required
      [] operation.type = "Projection" -> operation.columns
      [] operation.type = "Selection" -> operation.predicate.columns_required
      [] operation.type = "Sort" ->
            UNION {operation.terms[i].expression.columns_required :
                       i \in DOMAIN operation.terms}
      [] operation.type = "PartialJoin" ->
            (operation.binary.predicate.columns_required \ operation.fixed.columns)
                \cup operation.binary.min_columns
      [] OTHER -> {}

is_order_dependent(operation) == operation.type = "Slice"
is_count_dependent(operation) == operation.type = "Slice"

\* Reordering subclasses.
IsReordering(operation) == operation.type = "Sort"

(***************************************************************************)
(* Relations.                                                              *)
(***************************************************************************)

LeafRelation(engine, columns, min_rows, max_rows) ==
    [kind |-> "leaf", engine |-> engine, columns |-> columns,
     min_rows |-> min_rows, max_rows |-> max_rows, is_locked |-> TRUE]

UnaryOperationRelation(operation, target, columns, is_locked) ==
    [kind |-> "unary", operation |-> operation, target |-> target,
     columns |-> columns, is_locked |-> is_locked]

BinaryOperationRelation(operation, lhs, rhs, columns, is_locked) ==
    [kind |-> "binary", operation |-> operation, lhs |-> lhs, rhs |-> rhs,
     columns |-> columns, is_locked |-> is_locked]

IsUnary(r, type) == r.kind = "unary" /\ r.operation.type = type
IsBinary(r, type) == r.kind = "binary" /\ r.operation.type = type

RECURSIVE engine(_)
RECURSIVE min_rows(_)
RECURSIVE max_rows(_)

\* Join.applied_max_rows
Join_applied_max_rows(lhs, rhs) ==
    IF max_rows(lhs) = 0 \/ max_rows(rhs) = 0 THEN 0
    ELSE IF max_rows(lhs) = NoneInt \/ max_rows(rhs) = NoneInt THEN NoneInt
    ELSE max_rows(lhs) * max_rows(rhs)

\* Join.applied_min_rows
Join_applied_min_rows(lhs, rhs) == 0

\* Chain.applied_min_rows
Chain_applied_min_rows(lhs, rhs) == min_rows(lhs) + min_rows(rhs)

\* Chain.applied_max_rows
Chain_applied_max_rows(lhs, rhs) ==
    IF max_rows(lhs) = NoneInt \/ max_rows(rhs) = NoneInt THEN NoneInt
    ELSE max_rows(lhs) + max_rows(rhs)

\* Deduplication.applied_min_rows
Deduplication_applied_min_rows(self, target) == 1

\* Selection.applied_min_rows
Selection_applied_min_rows(self, target) == 0

\* Slice.applied_min_rows
Slice_applied_min_rows(self, target) ==
    IF self.stop # NoneInt THEN Min(self.stop - self.start, min_rows(target))
    ELSE min_rows(target)

\* applied_min_rows of Calculation, Projection, Marker and Reordering.
Passthrough_applied_min_rows(self, target) == min_rows(target)

\* operation.applied_min_rows(target), by the operation's class.
applied_min_rows(operation, target) ==
    CASE operation.type = "Deduplication" -> Deduplication_applied_min_rows(operation, target)
      [] operation.type = "Selection" -> Selection_applied_min_rows(operation, target)
      [] operation.type = "Slice" -> Slice_applied_min_rows(operation, target)
      [] OTHER -> Passthrough_applied_min_rows(operation, target)

\* UnaryOperation.applied_max_rows (no unary operation of a tree overrides it).
applied_max_rows(operation, target) == max_rows(target)

\* UnaryOperation.applied_engine, overridden by Transfer.
applied_engine(operation, target) ==
    IF operation.type = "Transfer" THEN operation.destination ELSE engine(target)

\* BinaryOperation.applied_engine
binary_applied_engine(operation, lhs, rhs) == engine(lhs)

\* Relation.engine
engine(r) ==
    CASE r.kind = "leaf" -> r.engine
      [] r.kind = "unary" -> applied_engine(r.operation, r.target)
      [] r.kind = "binary" -> binary_applied_engine(r.operation, r.lhs, r.rhs)

\* Relation.min_rows
min_rows(r) ==
    CASE r.kind = "leaf" -> r.min_rows
      [] r.kind = "unary" -> applied_min_rows(r.operation, r.target)
      [] r.kind = "binary" ->
            IF r.operation.type = "Join" THEN Join_applied_min_rows(r.lhs, r.rhs)
            ELSE Chain_applied_min_rows(r.lhs, r.rhs)

\* Relation.max_rows
max_rows(r) ==
    CASE r.kind = "leaf" -> r.max_rows
      [] r.kind = "unary" -> applied_max_rows(r.operation, r.target)
      [] r.kind = "binary" ->
            IF r.operation.type = "Join" THEN Join_applied_max_rows(r.lhs, r.rhs)
            ELSE Chain_applied_max_rows(r.lhs, r.rhs)

\* Relation.is_join_identity
is_join_identity(r) == r.columns = {} /\ min_rows(r) = 1 /\ max_rows(r) = 1

\* UnaryOperation.applied_columns and its overrides (PartialJoin apart).
applied_columns(operation, target) ==
    CASE operation.type = "Calculation" -> target.columns \cup {operation.tag}
      [] operation.type = "Projection" -> operation.columns
      [] OTHER -> target.columns

\* Join.applied_columns
Join_applied_columns(lhs, rhs) == lhs.columns \cup rhs.columns

\* Chain.applied_columns
Chain_applied_columns(lhs, rhs) == lhs.columns

\* PartialJoin.applied_columns
PartialJoin_applied_columns(self, target) ==
    IF self.fixed_is_lhs THEN Join_applied_columns(self.fixed, target)
    ELSE Join_applied_columns(target, self.fixed)

(***************************************************************************)
(* Engine.preserves_order.                                                 *)
(***************************************************************************)

RECURSIVE preserves_order(_, _)
\* sql.Engine.preserves_order; the iteration engine keeps the order of its
\* rows under everything but a Reordering, and hands a Transfer to another
\* engine over to that engine.
preserves_order(eng, operation) ==
    IF eng = "sql" THEN
        CASE operation.type \in {"Slice", "Deduplication"} -> TRUE
          [] operation.type = "Transfer" ->
                IF operation.destination = eng THEN FALSE
                ELSE preserves_order(operation.destination, operation)
          [] OTHER -> FALSE
    ELSE
        CASE IsReordering(operation) -> FALSE
          [] operation.type = "Transfer" ->
                IF operation.destination = eng THEN TRUE
                ELSE preserves_order(operation.destination, operation)
          [] OTHER -> TRUE

\* Relation.expect_unordered(msg): a relation whose rows a Reordering has
\* just put in order is returned without that Reordering when msg is None,
\* and raises RowOrderError otherwise; any other relation is returned as is.
expect_unordered(r, strip_ordering) ==
    IF r.kind = "unary" /\ IsReordering(r.operation) THEN
        IF strip_ordering THEN r.target ELSE Raise("RowOrderError")
    ELSE r

(***************************************************************************)
(* apply(): keyword arguments and the base-class implementations.          *)
(***************************************************************************)

Kw(preferred_engine, backtrack, transfer, require_preferred_engine, lock, strip_ordering) ==
    [preferred_engine |-> preferred_engine, backtrack |-> backtrack,
     transfer |-> transfer, require_preferred_engine |-> require_preferred_engine,
     lock |-> lock, strip_ordering |-> strip_ordering]

\* The defaults of the keyword arguments (Materialization defaults lock to True).
DefaultKw == Kw(NoEngine, TRUE, FALSE, FALSE, FALSE, FALSE)
LockKw(lock) == Kw(NoEngine, TRUE, FALSE, FALSE, lock, FALSE)

\* UnaryOperation.apply
UnaryOperation_apply(self, target, lock) ==
    UnaryOperationRelation(self, target, applied_columns(self, target), lock)

\* BinaryOperation.apply
BinaryOperation_apply(self, lhs, rhs, lock) ==
    BinaryOperationRelation(
        self, lhs, rhs,
        IF self.type = "Join" THEN Join_applied_columns(lhs, rhs)
        ELSE Chain_applied_columns(lhs, rhs),
        lock)

\* Identity.apply, had it kept the apply() of UnaryOperation.
Identity_apply_inherited(self, target, lock) == UnaryOperation_apply(self, target, lock)

\* Identity.apply
Identity_apply(self, target, lock) == target

\* Transfer.apply
Transfer_apply(self, target, lock, strip_ordering) ==
    IF engine(target) = self.destination THEN target
    ELSE LET unordered == IF ~preserves_order(engine(target), self)
                          THEN expect_unordered(target, strip_ordering)
                          ELSE target
         IN  IF IsError(unordered) THEN unordered
             ELSE UnaryOperation_apply(self, unordered, lock)

\* Materialization.apply, for a materialization that was given its name.
Materialization_apply(self, target, lock, strip_ordering) ==
    IF target.kind = "leaf" THEN target
    ELSE IF IsUnary(target, "Materialization") THEN target
    ELSE LET unordered == IF ~preserves_order(engine(target), self)
                          THEN expect_unordered(target, strip_ordering)
                          ELSE target
         IN  IF IsError(unordered) THEN unordered
             ELSE UnaryOperation_apply(self, unordered, lock)

\* Slice.apply, had it not looked for a Slice to merge with.
Slice_apply_unmerged(self, target, lock) ==
    IF self.start = 0 /\ self.stop = NoneInt THEN target
    ELSE UnaryOperation_apply(self, target, lock)

\* Slice.apply, had it taken the stop of the new slice as an index into the
\* nested target.
Slice_apply_absolute_stop(self, target, lock) ==
    IF self.start = 0 /\ self.stop = NoneInt THEN target
    ELSE IF IsUnary(target, "Slice") THEN
        LET previous_start == target.operation.start
            previous_stop == target.operation.stop
            new_start == previous_start + self.start
            new_stop ==
                IF previous_stop = NoneInt THEN self.stop
                ELSE
                    IF self.stop = NoneInt THEN previous_stop
                    ELSE Min(previous_stop, self.stop)
        IN  Slice_apply_unmerged(Slice(new_start, new_stop), target.target, lock)
    ELSE UnaryOperation_apply(self, target, lock)

RECURSIVE Slice_apply(_, _, _)
\* Slice.apply
Slice_apply(self, target, lock) ==
    IF self.start = 0 /\ self.stop = NoneInt THEN target
    ELSE IF IsUnary(target, "Slice") THEN
        LET previous_start == target.operation.start
            previous_stop == target.operation.stop
            new_start == previous_start + self.start
            new_stop ==
                IF previous_stop = NoneInt THEN
                    IF self.stop = NoneInt THEN NoneInt
                    ELSE self.stop + previous_start
                ELSE
                    IF self.stop = NoneInt THEN previous_stop
                    ELSE Min(previous_stop, self.stop + previous_start)
        IN  Slice_apply(Slice(new_start, new_stop), target.target, lock)
    ELSE UnaryOperation_apply(self, target, lock)

\* Chain.apply, had it not compared the engines of its operands.
Chain_apply_any_engine(self, lhs0, rhs0, lock, strip_ordering) ==
    LET lhs == IF ~preserves_order(engine(lhs0), self)
               THEN expect_unordered(lhs0, strip_ordering) ELSE lhs0
    IN  IF IsError(lhs) THEN lhs
        ELSE
        LET rhs == IF ~preserves_order(engine(rhs0), self)
                   THEN expect_unordered(rhs0, strip_ordering) ELSE rhs0
        IN  IF IsError(rhs) THEN rhs
            ELSE IF lhs.columns # rhs.columns THEN Raise("ColumnError")
            ELSE BinaryOperation_apply(self, lhs, rhs, lock)

\* Chain.apply, had it returned the other operand for one that has no rows.
Chain_apply_eliding_empty(self, lhs0, rhs0, lock, strip_ordering) ==
    LET chained == Chain_apply_any_engine(self, lhs0, rhs0, lock, strip_ordering)
    IN  IF IsError(chained) THEN chained
        ELSE IF engine(chained.lhs) # engine(chained.rhs) THEN Raise("EngineError")
        ELSE IF max_rows(chained.rhs) = 0 THEN chained.lhs
        ELSE IF max_rows(chained.lhs) = 0 THEN chained.rhs
        ELSE chained

\* Chain.apply
Chain_apply(self, lhs0, rhs0, lock, strip_ordering) ==
    LET lhs == IF ~preserves_order(engine(lhs0), self)
               THEN expect_unordered(lhs0, strip_ordering) ELSE lhs0
    IN  IF IsError(lhs) THEN lhs
        ELSE
        LET rhs == IF ~preserves_order(engine(rhs0), self)
                   THEN expect_unordered(rhs0, strip_ordering) ELSE rhs0
        IN  IF IsError(rhs) THEN rhs
            ELSE IF engine(lhs) # engine(rhs) THEN Raise("EngineError")
            ELSE IF lhs.columns # rhs.columns THEN Raise("ColumnError")
            ELSE BinaryOperation_apply(self, lhs, rhs, lock)

\* Join.applied_common_columns, had it not looked at max_columns.
Join_applied_common_columns_unlimited(self, lhs, rhs) ==
    LET common_columns == {tag \in lhs.columns \cap rhs.columns : is_key(tag)}
    IN  IF ~(self.min_columns \subseteq common_columns) THEN Raise("ColumnError")
        ELSE [kind |-> "columns", columns |-> common_columns]

\* Join.applied_common_columns, for a join that is not resolved yet.
Join_applied_common_columns(self, lhs, rhs) ==
    LET keys == {tag \in lhs.columns \cap rhs.columns : is_key(tag)}
        common_columns == IF self.max_columns # None
                          THEN keys \cap TheValue(self.max_columns)
                          ELSE keys
    IN  IF ~(self.min_columns \subseteq common_columns) THEN Raise("ColumnError")
        ELSE [kind |-> "columns", columns |-> common_columns]

\* Join.apply
Join_apply(self, lhs0, rhs0, lock, strip_ordering) ==
    IF engine(lhs0) # engine(rhs0) THEN Raise("EngineError")
    ELSE IF ~is_supported_by(self.predicate, engine(lhs0)) THEN Raise("EngineError")
    ELSE IF ~(self.predicate.columns_required \subseteq Join_applied_columns(lhs0, rhs0))
        THEN Raise("ColumnError")
    ELSE
    LET common == IF ~JoinResolved(self) THEN Join_applied_common_columns(self, lhs0, rhs0)
                  ELSE IF ~(self.min_columns \subseteq lhs0.columns) THEN Raise("ColumnError")
                  ELSE IF ~(self.min_columns \subseteq lhs0.columns) THEN Raise("ColumnError")
                  ELSE [kind |-> "columns", columns |-> self.min_columns]
    IN  IF IsError(common) THEN common
        ELSE
        LET operation == Join(self.predicate, common.columns, Some(common.columns))
            lhs == expect_unordered(lhs0, strip_ordering)
        IN  IF IsError(lhs) THEN lhs
            ELSE
            LET rhs == expect_unordered(rhs0, strip_ordering)
            IN  IF IsError(rhs) THEN rhs
                ELSE IF is_join_identity(lhs) THEN rhs
                ELSE IF is_join_identity(rhs) THEN lhs
                ELSE BinaryOperation_apply(operation, lhs, rhs, lock)

\* Join.partial
Join_partial(self, fix, is_lhs, strip_ordering) ==
    IF ~(self.min_columns \subseteq fix.columns) THEN Raise("ColumnError")
    ELSE LET unordered == expect_unordered(fix, strip_ordering)
         IN  IF IsError(unordered) THEN unordered
             ELSE PartialJoin(self, unordered, is_lhs)

(***************************************************************************)
(* The operations whose apply() can backtrack to a preferred engine.       *)
(***************************************************************************)

RECURSIVE invoke(_, _)

\* Whether apply() looks for a way into the preferred engine.
WantsOtherEngine(target, kw) ==
    kw.preferred_engine # NoEngine /\ kw.preferred_engine # engine(target)

\* The same branch, had require_preferred_engine been looked at first.
RequireOrTransfer(wants_other_engine, target, kw) ==
    IF ~wants_other_engine THEN target
    ELSE IF kw.require_preferred_engine THEN Raise("EngineError")
    ELSE IF kw.transfer THEN Transfer_apply(Transfer(kw.preferred_engine), target, FALSE, FALSE)
    ELSE target

\* The branch of apply() taken once backtracking was not tried or found
\* nothing: a Transfer in front of the target, an EngineError, or the target.
TransferOrRequire(wants_other_engine, target, kw) ==
    IF ~wants_other_engine THEN target
    ELSE IF kw.transfer THEN Transfer_apply(Transfer(kw.preferred_engine), target, FALSE, FALSE)
    ELSE IF kw.require_preferred_engine THEN Raise("EngineError")
    ELSE target

\* ---------------------------------------------------------------- Selection

\* Selection.apply, had it put its own predicate in the place of the one of
\* the Selection it merges with.
Selection_apply_replacing(self, target0, kw) ==
    IF as_trivial(self.predicate) = "True" THEN target0
    ELSE IF ~(self.predicate.columns_required \subseteq target0.columns)
        THEN Raise("ColumnError")
    ELSE
    LET target1 == IF ~preserves_order(engine(target0), self)
                   THEN expect_unordered(target0, kw.strip_ordering)
                   ELSE target0
    IN  IF IsError(target1) THEN target1
        ELSE
        LET result == IF WantsOtherEngine(target1, kw) /\ kw.backtrack
                      THEN invoke("Selection_insert_recursive", <<self, target1, kw.preferred_engine, kw.lock>>)
                      ELSE PyNone
        IN  IF ~IsNone(result) THEN result
            ELSE
            LET target == TransferOrRequire(WantsOtherEngine(target1, kw), target1, kw)
            IN  IF IsError(target) THEN target
                ELSE IF ~is_supported_by(self.predicate, engine(target))
                    THEN Raise("EngineError")
                ELSE IF IsUnary(target, "Selection") THEN
                    invoke("Selection_apply", <<
                        Selection(self.predicate),
                        target.target, DefaultKw>>)
                ELSE UnaryOperation_apply(self, target, kw.lock)

\* Selection.apply
Selection_apply(self, target0, kw) ==
    IF as_trivial(self.predicate) = "True" THEN target0
    ELSE IF ~(self.predicate.columns_required \subseteq target0.columns)
        THEN Raise("ColumnError")
    ELSE
    LET target1 == IF ~preserves_order(engine(target0), self)
                   THEN expect_unordered(target0, kw.strip_ordering)
                   ELSE target0
    IN  IF IsError(target1) THEN target1
        ELSE
        LET result == IF WantsOtherEngine(target1, kw) /\ kw.backtrack
                      THEN invoke("Selection_insert_recursive", <<self, target1, kw.preferred_engine, kw.lock>>)
                      ELSE PyNone
        IN  IF ~IsNone(result) THEN result
            ELSE
            LET target == TransferOrRequire(WantsOtherEngine(target1, kw), target1, kw)
            IN  IF IsError(target) THEN target
                ELSE IF ~is_supported_by(self.predicate, engine(target))
                    THEN Raise("EngineError")
                ELSE IF IsUnary(target, "Selection") THEN
                    invoke("Selection_apply", <<
                        Selection(logical_and(target.operation.predicate, self.predicate)),
                        target.target, DefaultKw>>)
                ELSE UnaryOperation_apply(self, target, kw.lock)

\* Selection._insert_recursive, had it stopped at the first branch of a Join
\* that takes the Selection, as Calculation._insert_recursive does.
Selection_insert_recursive_one_branch(self, target, preferred_engine, lock) ==
    IF target.is_locked THEN PyNone
    ELSE IF target.kind = "unary" THEN
        LET operation == target.operation
            next_target == target.target
        IN  IF is_count_dependent(operation) THEN PyNone
            ELSE IF is_order_dependent(operation)
                    /\ ~preserves_order(engine(next_target), self) THEN PyNone
            ELSE IF ~(columns_required(self) \subseteq next_target.columns) THEN PyNone
            ELSE IF engine(next_target) = preferred_engine THEN
                LET inner == invoke("Selection_apply", <<self, next_target, LockKw(lock)>>)
                IN  IF IsError(inner) THEN inner ELSE invoke("apply", <<operation, inner>>)
            ELSE
                LET new_target == invoke("Selection_insert_recursive", <<
                                      self, next_target, preferred_engine, lock>>)
                IN  IF IsRelation(new_target) THEN invoke("apply", <<operation, new_target>>)
                    ELSE new_target
    ELSE IF IsBinary(target, "Join") THEN
        LET next_lhs == target.lhs
            next_rhs == target.rhs
            lhs_found == IF columns_required(self) \subseteq next_lhs.columns
                         THEN invoke("Selection_insert_recursive", <<self, next_lhs, preferred_engine, lock>>)
                         ELSE PyNone
            rhs_found == IF columns_required(self) \subseteq next_rhs.columns
                         THEN invoke("Selection_insert_recursive", <<self, next_rhs, preferred_engine, lock>>)
                         ELSE PyNone
        IN  IF IsError(lhs_found) THEN lhs_found
            ELSE IF IsError(rhs_found) THEN rhs_found
            ELSE IF IsRelation(lhs_found) THEN
                invoke("binary_apply", <<target.operation, lhs_found, next_rhs>>)
            ELSE IF IsRelation(rhs_found) THEN
                invoke("binary_apply", <<target.operation, next_lhs, rhs_found>>)
            ELSE PyNone
    ELSE IF IsBinary(target, "Chain") THEN
        LET new_union_lhs == invoke("Selection_insert_recursive", <<
                                 self, target.lhs, preferred_engine, lock>>)
        IN  IF IsError(new_union_lhs) THEN new_union_lhs
            ELSE
            LET new_union_rhs == invoke("Selection_insert_recursive", <<
                                     self, target.rhs, preferred_engine, lock>>)
            IN  IF IsError(new_union_rhs) THEN new_union_rhs
                ELSE IF IsRelation(new_union_lhs) /\ IsRelation(new_union_rhs)
                    THEN invoke("binary_apply", <<target.operation, new_union_lhs, new_union_rhs>>)
                ELSE PyNone
    ELSE PyNone

\* Selection._insert_recursive
Selection_insert_recursive(self, target, preferred_engine, lock) ==
    IF target.is_locked THEN PyNone
    ELSE IF target.kind = "unary" THEN
        LET operation == target.operation
            next_target == target.target
        IN  IF is_count_dependent(operation) THEN PyNone
            ELSE IF is_order_dependent(operation)
                    /\ ~preserves_order(engine(next_target), self) THEN PyNone
            ELSE IF ~(columns_required(self) \subseteq next_target.columns) THEN PyNone
            ELSE IF engine(next_target) = preferred_engine THEN
                LET inner == invoke("Selection_apply", <<self, next_target, LockKw(lock)>>)
                IN  IF IsError(inner) THEN inner ELSE invoke("apply", <<operation, inner>>)
            ELSE
                LET new_target == invoke("Selection_insert_recursive", <<
                                      self, next_target, preferred_engine, lock>>)
                IN  IF IsRelation(new_target) THEN invoke("apply", <<operation, new_target>>)
                    ELSE new_target
    ELSE IF IsBinary(target, "Join") THEN
        LET next_lhs == target.lhs
            next_rhs == target.rhs
            lhs_found == IF columns_required(self) \subseteq next_lhs.columns
                         THEN invoke("Selection_insert_recursive", <<self, next_lhs, preferred_engine, lock>>)
                         ELSE PyNone
            rhs_found == IF columns_required(self) \subseteq next_rhs.columns
                         THEN invoke("Selection_insert_recursive", <<self, next_rhs, preferred_engine, lock>>)
                         ELSE PyNone
        IN  IF IsError(lhs_found) THEN lhs_found
            ELSE IF IsError(rhs_found) THEN rhs_found
            ELSE IF IsRelation(lhs_found) \/ IsRelation(rhs_found) THEN
                invoke("binary_apply", <<target.operation,
                             IF IsRelation(lhs_found) THEN lhs_found ELSE next_lhs,
                             IF IsRelation(rhs_found) THEN rhs_found ELSE next_rhs>>)
            ELSE PyNone
    ELSE IF IsBinary(target, "Chain") THEN
        LET new_union_lhs == invoke("Selection_insert_recursive", <<
                                 self, target.lhs, preferred_engine, lock>>)
        IN  IF IsError(new_union_lhs) THEN new_union_lhs
            ELSE
            LET new_union_rhs == invoke("Selection_insert_recursive", <<
                                     self, target.rhs, preferred_engine, lock>>)
            IN  IF IsError(new_union_rhs) THEN new_union_rhs
                ELSE IF IsRelation(new_union_lhs) /\ IsRelation(new_union_rhs)
                    THEN invoke("binary_apply", <<target.operation, new_union_lhs, new_union_rhs>>)
                ELSE PyNone
    ELSE PyNone

\* -------------------------------------------------------------- Calculation

\* Calculation.apply
Calculation_apply(self, target0, kw) ==
    LET target1 == IF ~preserves_order(engine(target0), self)
                   THEN expect_unordered(target0, kw.strip_ordering)
                   ELSE target0
    IN  IF IsError(target1) THEN target1
        ELSE IF ~(self.expression.columns_required \subseteq target1.columns)
            THEN Raise("ColumnError")
        ELSE IF self.tag \in target1.columns THEN Raise("ColumnError")
        ELSE
        LET result == IF WantsOtherEngine(target1, kw) /\ kw.backtrack
                      THEN invoke("Calculation_insert_recursive", <<self, target1, kw.preferred_engine, kw.lock>>)
                      ELSE PyNone
        IN  IF ~IsNone(result) THEN result
            ELSE
            LET target == TransferOrRequire(WantsOtherEngine(target1, kw), target1, kw)
            IN  IF IsError(target) THEN target
                ELSE IF ~is_supported_by(self.expression, engine(target))
                    THEN Raise("EngineError")
                ELSE UnaryOperation_apply(self, target, kw.lock)

\* Calculation._insert_recursive
Calculation_insert_recursive(self, target, preferred_engine, lock) ==
    IF target.is_locked THEN PyNone
    ELSE IF target.kind = "unary" THEN
        LET next_target == target.target
            operation == IF target.operation.type = "Projection"
                         THEN Projection(target.operation.columns \cup {self.tag})
                         ELSE target.operation
        IN  IF ~(columns_required(self) \subseteq next_target.columns) THEN PyNone
            ELSE IF is_order_dependent(operation)
                    /\ ~preserves_order(engine(next_target), self) THEN PyNone
            ELSE IF engine(next_target) = preferred_engine THEN
                LET inner == invoke("Calculation_apply", <<self, next_target, LockKw(lock)>>)
                IN  IF IsError(inner) THEN inner ELSE invoke("apply", <<operation, inner>>)
            ELSE
                LET new_target == invoke("Calculation_insert_recursive", <<
                                      self, next_target, preferred_engine, lock>>)
                IN  IF IsRelation(new_target) THEN invoke("apply", <<operation, new_target>>)
                    ELSE new_target
    ELSE IF IsBinary(target, "Join") THEN
        LET next_lhs == target.lhs
            next_rhs == target.rhs
            new_join_lhs == IF columns_required(self) \subseteq next_lhs.columns
                            THEN invoke("Calculation_insert_recursive", <<
                                     self, next_lhs, preferred_engine, lock>>)
                            ELSE PyNone
        IN  IF IsError(new_join_lhs) THEN new_join_lhs
            ELSE IF IsRelation(new_join_lhs)
                THEN invoke("binary_apply", <<target.operation, new_join_lhs, next_rhs>>)
            ELSE
            LET new_join_rhs == IF columns_required(self) \subseteq next_rhs.columns
                                THEN invoke("Calculation_insert_recursive", <<
                                         self, next_rhs, preferred_engine, lock>>)
                                ELSE PyNone
            IN  IF IsRelation(new_join_rhs)
                    THEN invoke("binary_apply", <<target.operation, next_lhs, new_join_rhs>>)
                ELSE new_join_rhs
    ELSE IF IsBinary(target, "Chain") THEN
        LET new_union_lhs == invoke("Calculation_insert_recursive", <<
                                 self, target.lhs, preferred_engine, lock>>)
        IN  IF IsError(new_union_lhs) THEN new_union_lhs
            ELSE
            LET new_union_rhs == invoke("Calculation_insert_recursive", <<
                                     self, target.rhs, preferred_engine, lock>>)
            IN  IF IsError(new_union_rhs) THEN new_union_rhs
                ELSE IF IsRelation(new_union_lhs) /\ IsRelation(new_union_rhs)
                    THEN invoke("binary_apply", <<target.operation, new_union_lhs, new_union_rhs>>)
                ELSE PyNone
    ELSE PyNone

\* --------------------------------------------------------------- Projection

\* What Projection._insert_recursive returns: a relation, and whether it is
\* the very object it was given (`new_target is next_target`).
Found(relation, is_target) ==
    [kind |-> "found", relation |-> relation, is_target |-> is_target]

\* Projection.apply, had it kept a Calculation whose column it drops.
Projection_apply_keeping_calculation(self, target0, kw) ==
    IF self.columns = target0.columns THEN target0
    ELSE
    LET target1 == IF ~preserves_order(engine(target0), self)
                   THEN expect_unordered(target0, kw.strip_ordering)
                   ELSE target0
    IN  IF IsError(target1) THEN target1
        ELSE IF ~(self.columns \subseteq target1.columns) THEN Raise("ColumnError")
        ELSE
        LET wants == WantsOtherEngine(target1, kw)
            inserted == IF wants /\ kw.backtrack
                        THEN invoke("Projection_insert_recursive", <<
                                 self, target1, kw.preferred_engine, kw.lock>>)
                        ELSE Found(target1, TRUE)
        IN  IF IsError(inserted) THEN inserted
            ELSE IF wants /\ kw.backtrack /\ inserted.relation.columns = self.columns
                THEN inserted.relation
            ELSE
            LET target == TransferOrRequire(wants, inserted.relation, kw)
            IN  IF IsError(target) THEN target
                ELSE IF IsUnary(target, "Projection")
                    THEN invoke("Projection_apply", <<self, target.target, DefaultKw>>)
                ELSE UnaryOperation_apply(self, target, kw.lock)

\* Projection.apply
Projection_apply(self, target0, kw) ==
    IF self.columns = target0.columns THEN target0
    ELSE
    LET target1 == IF ~preserves_order(engine(target0), self)
                   THEN expect_unordered(target0, kw.strip_ordering)
                   ELSE target0
    IN  IF IsError(target1) THEN target1
        ELSE IF ~(self.columns \subseteq target1.columns) THEN Raise("ColumnError")
        ELSE
        LET wants == WantsOtherEngine(target1, kw)
            inserted == IF wants /\ kw.backtrack
                        THEN invoke("Projection_insert_recursive", <<
                                 self, target1, kw.preferred_engine, kw.lock>>)
                        ELSE Found(target1, TRUE)
        IN  IF IsError(inserted) THEN inserted
            ELSE IF wants /\ kw.backtrack /\ inserted.relation.columns = self.columns
                THEN inserted.relation
            ELSE
            LET target == TransferOrRequire(wants, inserted.relation, kw)
            IN  IF IsError(target) THEN target
                ELSE IF IsUnary(target, "Projection")
                    THEN invoke("Projection_apply", <<self, target.target, DefaultKw>>)
                ELSE IF IsUnary(target, "Calculation")
                        /\ target.operation.tag \notin self.columns
                    THEN invoke("Projection_apply", <<self, target.target, DefaultKw>>)
                ELSE UnaryOperation_apply(self, target, kw.lock)

\* Projection._insert_recursive.  The operands of a Chain or Join are
\* taken to be two objects, so `new_union_lhs is next_rhs` is false.
Projection_insert_recursive(self, target, preferred_engine, lock) ==
    IF target.is_locked THEN Found(target, TRUE)
    ELSE IF target.kind = "unary" THEN
        LET operation == target.operation
            next_target == target.target
            reapply ==
                ~(operation.type = "Projection"
                  \/ (operation.type = "Calculation" /\ operation.tag \notin self.columns))
            recurse_with ==
                IF ~(columns_required(operation) \subseteq self.columns)
                THEN Projection(self.columns \cup columns_required(operation))
                ELSE self
        IN  IF is_order_dependent(operation)
               /\ ~preserves_order(engine(next_target), self) THEN Found(target, TRUE)
            ELSE IF engine(next_target) = preferred_engine THEN
                LET inner == invoke("Projection_apply", <<self, next_target, LockKw(lock)>>)
                IN  IF IsError(inner) THEN inner
                    ELSE LET outer == invoke("apply", <<operation, inner>>)
                         IN  IF IsError(outer) THEN outer ELSE Found(outer, FALSE)
            ELSE
                LET new_target == invoke("Projection_insert_recursive", <<
                                      recurse_with, next_target, preferred_engine, lock>>)
                IN  IF IsError(new_target) THEN new_target
                    ELSE IF reapply /\ new_target.is_target THEN Found(target, TRUE)
                    ELSE IF reapply THEN
                        LET outer == invoke("apply", <<operation, new_target.relation>>)
                        IN  IF IsError(outer) THEN outer ELSE Found(outer, FALSE)
                    ELSE Found(target, TRUE)
    ELSE IF IsBinary(target, "Join") THEN
        LET next_lhs == target.lhs
            next_rhs == target.rhs
            recurse_columns == self.columns \cup target.operation.min_columns
                                   \cup target.operation.predicate.columns_required
            new_join_lhs ==
                IF next_lhs.columns \subseteq recurse_columns THEN Found(next_lhs, TRUE)
                ELSE invoke("Projection_insert_recursive", <<
                         Projection(recurse_columns \cap next_lhs.columns),
                         next_lhs, preferred_engine, lock>>)
        IN  IF IsError(new_join_lhs) THEN new_join_lhs
            ELSE
            LET new_join_rhs ==
                    IF next_rhs.columns \subseteq recurse_columns THEN Found(next_rhs, TRUE)
                    ELSE invoke("Projection_insert_recursive", <<
                             Projection(recurse_columns \cap next_rhs.columns),
                             next_rhs, preferred_engine, lock>>)
            IN  IF IsError(new_join_rhs) THEN new_join_rhs
                ELSE IF new_join_lhs.is_target /\ new_join_rhs.is_target
                    THEN Found(target, TRUE)
                ELSE LET joined == invoke("binary_apply", <<target.operation,
                                                new_join_lhs.relation, new_join_rhs.relation>>)
                     IN  IF IsError(joined) THEN joined ELSE Found(joined, FALSE)
    ELSE IF IsBinary(target, "Chain") THEN
        LET new_union_lhs == invoke("Projection_insert_recursive", <<
                                 self, target.lhs, preferred_engine, lock>>)
        IN  IF IsError(new_union_lhs) THEN new_union_lhs
            ELSE
            LET new_union_rhs == invoke("Projection_insert_recursive", <<
                                     self, target.rhs, preferred_engine, lock>>)
            IN  IF IsError(new_union_rhs) THEN new_union_rhs
                ELSE IF new_union_lhs.relation.columns # new_union_rhs.relation.columns
                        /\ (new_union_lhs.relation.columns
                                \cup new_union_rhs.relation.columns) = self.columns
                    THEN Found(target, TRUE)
                ELSE LET chained == invoke("binary_apply", <<target.operation,
                                                 new_union_lhs.relation,
                                                 new_union_rhs.relation>>)
                     IN  IF IsError(chained) THEN chained ELSE Found(chained, FALSE)
    ELSE Found(target, TRUE)

\* ------------------------------------------------------------ Deduplication

\* Deduplication._applied_unique_key, had it not looked at ColumnTag.is_key.
Deduplication_applied_unique_key_any_column(self, target) ==
    LET unique_key == target.columns
    IN  IF unique_key = {} THEN Raise("ColumnError")
        ELSE [kind |-> "columns", columns |-> unique_key]

\* Deduplication._applied_unique_key, when unique_key is None.
Deduplication_applied_unique_key(self, target) ==
    LET unique_key == {c \in target.columns : is_key(c)}
    IN  IF unique_key = {} THEN Raise("ColumnError")
        ELSE [kind |-> "columns", columns |-> unique_key]

\* Deduplication.apply, had it applied itself again without the unique key
\* it found: a recursion with no base case, which ends in a RecursionError.
Deduplication_apply_unresolved(self, target0, kw) ==
    LET target1 == IF ~preserves_order(engine(target0), self)
                   THEN expect_unordered(target0, kw.strip_ordering)
                   ELSE target0
    IN  IF IsError(target1) THEN target1
        ELSE IF self.unique_key = None THEN
            LET unique_key == Deduplication_applied_unique_key(self, target1)
            IN  IF IsError(unique_key) THEN unique_key
                ELSE Raise("RecursionError")
        ELSE
        LET result == IF WantsOtherEngine(target1, kw) /\ kw.backtrack
                      THEN invoke("Deduplication_insert_recursive", <<
                               self, target1, kw.preferred_engine, kw.lock>>)
                      ELSE PyNone
        IN  IF ~IsNone(result) THEN result
            ELSE
            LET target == TransferOrRequire(WantsOtherEngine(target1, kw), target1, kw)
            IN  IF IsError(target) THEN target
                ELSE UnaryOperation_apply(self, target, FALSE)

\* Deduplication.apply
Deduplication_apply(self, target0, kw) ==
    LET target1 == IF ~preserves_order(engine(target0), self)
                   THEN expect_unordered(target0, kw.strip_ordering)
                   ELSE target0
    IN  IF IsError(target1) THEN target1
        ELSE IF self.unique_key = None THEN
            LET unique_key == Deduplication_applied_unique_key(self, target1)
            IN  IF IsError(unique_key) THEN unique_key
                ELSE invoke("Deduplication_apply", <<
                         Deduplication(Some(unique_key.columns)), target1, kw>>)
        ELSE
        LET result == IF WantsOtherEngine(target1, kw) /\ kw.backtrack
                      THEN invoke("Deduplication_insert_recursive", <<
                               self, target1, kw.preferred_engine, kw.lock>>)
                      ELSE PyNone
        IN  IF ~IsNone(result) THEN result
            ELSE
            LET target == TransferOrRequire(WantsOtherEngine(target1, kw), target1, kw)
            IN  IF IsError(target) THEN target
                ELSE UnaryOperation_apply(self, target, FALSE)

\* Deduplication._insert_recursive
Deduplication_insert_recursive(self, target, preferred_engine, lock) ==
    IF target.is_locked THEN PyNone
    ELSE IF target.kind = "unary" THEN
        LET operation == target.operation
            next_target == target.target
        IN  IF operation.type = "Deduplication" THEN target
            ELSE IF is_count_dependent(operation) THEN PyNone
            ELSE IF is_order_dependent(operation)
                    /\ ~preserves_order(engine(next_target), operation) THEN PyNone
            ELSE IF ~(next_target.columns \subseteq target.columns) THEN PyNone
            ELSE IF engine(next_target) = preferred_engine THEN
                LET inner == invoke("Deduplication_apply", <<self, next_target, LockKw(lock)>>)
                IN  IF IsError(inner) THEN inner ELSE invoke("apply", <<operation, inner>>)
            ELSE
                LET new_target == invoke("Deduplication_insert_recursive", <<
                                      self, next_target, preferred_engine, lock>>)
                IN  IF IsRelation(new_target) THEN invoke("apply", <<operation, new_target>>)
                    ELSE new_target
    ELSE IF IsBinary(target, "Join") THEN
        LET new_join_lhs == invoke("Deduplication_insert_recursive", <<
                                self, target.lhs, preferred_engine, lock>>)
        IN  IF IsError(new_join_lhs) THEN new_join_lhs
            ELSE
            LET new_join_rhs == invoke("Deduplication_insert_recursive", <<
                                    self, target.rhs, preferred_engine, lock>>)
            IN  IF IsError(new_join_rhs) THEN new_join_rhs
                ELSE IF IsRelation(new_join_lhs) /\ IsRelation(new_join_rhs)
                    THEN invoke("binary_apply", <<target.operation, new_join_rhs, new_join_rhs>>)
                ELSE PyNone
    ELSE PyNone

\* --------------------------------------------------------------------- Sort

RECURSIVE MergeTerms(_, _)
\* The loop of Sort.apply that appends the previous terms not yet present.
MergeTerms(new_terms, previous_terms) ==
    IF previous_terms = <<>> THEN new_terms
    ELSE LET term == Head(previous_terms)
         IN  MergeTerms(
                 IF \E i \in DOMAIN new_terms : new_terms[i] = term
                 THEN new_terms ELSE Append(new_terms, term),
                 Tail(previous_terms))

\* The loop of Sort.apply that checks every term against the target, in
\* order: the first term that fails raises.
CheckTerms(self, target) ==
    LET bad == {i \in DOMAIN self.terms :
                   \/ ~is_supported_by(self.terms[i].expression, engine(target))
                   \/ ~(self.terms[i].expression.columns_required \subseteq target.columns)}
    IN  IF bad = {} THEN target
        ELSE LET first == CHOOSE i \in bad : \A j \in bad : i <= j
             IN  IF ~is_supported_by(self.terms[first].expression, engine(target))
                 THEN Raise("EngineError")
                 ELSE Raise("ColumnError")

\* Sort.apply
Sort_apply(self, target0, kw) ==
    IF self.terms = <<>> THEN target0
    ELSE
    LET result == IF WantsOtherEngine(target0, kw) /\ kw.backtrack
                  THEN invoke("Sort_insert_recursive", <<self, target0, kw.preferred_engine, kw.lock>>)
                  ELSE PyNone
    IN  IF ~IsNone(result) THEN result
        ELSE
        LET target1 == TransferOrRequire(WantsOtherEngine(target0, kw), target0, kw)
        IN  IF IsError(target1) THEN target1
            ELSE
            LET target == CheckTerms(self, target1)
            IN  IF IsError(target) THEN target
                ELSE IF IsUnary(target, "Sort") THEN
                    invoke("Sort_apply", <<Sort(MergeTerms(self.terms, target.operation.terms)),
                               target.target, LockKw(kw.lock)>>)
                ELSE UnaryOperation_apply(self, target, kw.lock)

\* Sort._insert_recursive, had it gone past order-dependent operations.
Sort_insert_recursive_past_slices(self, target, preferred_engine, lock) ==
    IF target.is_locked THEN PyNone
    ELSE IF target.kind = "unary" THEN
        LET operation == target.operation
            next_target == target.target
        IN  IF ~preserves_order(engine(target), operation) THEN PyNone
            ELSE IF engine(next_target) = preferred_engine THEN
                LET inner == invoke("Sort_apply", <<self, next_target, LockKw(lock)>>)
                IN  IF IsError(inner) THEN inner ELSE invoke("apply", <<operation, inner>>)
            ELSE
                LET new_target == invoke("Sort_insert_recursive", <<
                                      self, next_target, preferred_engine, lock>>)
                IN  IF IsRelation(new_target) THEN invoke("apply", <<operation, new_target>>)
                    ELSE new_target
    ELSE PyNone

\* Sort._insert_recursive
Sort_insert_recursive(self, target, preferred_engine, lock) ==
    IF target.is_locked THEN PyNone
    ELSE IF target.kind = "unary" THEN
        LET operation == target.operation
            next_target == target.target
        IN  IF ~preserves_order(engine(target), operation) THEN PyNone
            ELSE IF is_order_dependent(operation) THEN PyNone
            ELSE IF engine(next_target) = preferred_engine THEN
                LET inner == invoke("Sort_apply", <<self, next_target, LockKw(lock)>>)
                IN  IF IsError(inner) THEN inner ELSE invoke("apply", <<operation, inner>>)
            ELSE
                LET new_target == invoke("Sort_insert_recursive", <<
                                      self, next_target, preferred_engine, lock>>)
                IN  IF IsRelation(new_target) THEN invoke("apply", <<operation, new_target>>)
                    ELSE new_target
    ELSE PyNone

\* -------------------------------------------------------------- PartialJoin

\* PartialJoin.apply; of kw it takes backtrack, transfer, strip_ordering, lock.
PartialJoin_apply(self, target0, kw) ==
    IF ~JoinResolved(self.binary) THEN
        LET common == Join_applied_common_columns(self.binary, self.fixed, target0)
        IN  IF IsError(common) THEN common
            ELSE invoke("PartialJoin_apply", <<
                     PartialJoin(Join(self.binary.predicate, common.columns,
                                      Some(common.columns)),
                                 self.fixed, self.fixed_is_lhs),
                     target0,
                     Kw(NoEngine, kw.backtrack, kw.transfer, FALSE, FALSE, FALSE)>>)
    ELSE IF ~(columns_required(self) \subseteq target0.columns) THEN Raise("ColumnError")
    ELSE
    LET wants == engine(target0) # engine(self.fixed)
        result == IF wants /\ kw.backtrack
                  THEN invoke("PartialJoin_insert_recursive", <<self, target0, kw.lock>>)
                  ELSE PyNone
    IN  IF ~IsNone(result) THEN result
        ELSE
        LET target == IF ~wants THEN target0
                      ELSE IF kw.transfer
                          THEN Transfer_apply(Transfer(engine(self.fixed)), target0, FALSE, FALSE)
                      ELSE Raise("EngineError")
        IN  IF IsError(target) THEN target
            ELSE IF self.fixed_is_lhs
                THEN Join_apply(self.binary, self.fixed, target, kw.lock, kw.strip_ordering)
            ELSE Join_apply(self.binary, target, self.fixed, kw.lock, kw.strip_ordering)

\* PartialJoin._insert_recursive
PartialJoin_insert_recursive(self, target, lock) ==
    IF target.is_locked THEN PyNone
    ELSE IF target.kind = "unary" THEN
        LET next_target == target.target
            operation == IF target.operation.type = "Projection"
                         THEN Projection(PartialJoin_applied_columns(self, target))
                         ELSE target.operation
        IN  IF operation.type = "Deduplication" THEN PyNone
            ELSE IF is_order_dependent(operation) THEN PyNone
            ELSE IF is_count_dependent(operation) THEN PyNone
            ELSE IF ~(columns_required(self) \subseteq next_target.columns) THEN PyNone
            ELSE IF engine(next_target) = engine(self.fixed) THEN
                LET inner == invoke("PartialJoin_apply", <<self, next_target, LockKw(lock)>>)
                IN  IF IsError(inner) THEN inner ELSE invoke("apply", <<operation, inner>>)
            ELSE
                LET new_target == invoke("PartialJoin_insert_recursive", <<self, next_target, lock>>)
                IN  IF IsRelation(new_target) THEN invoke("apply", <<operation, new_target>>)
                    ELSE new_target
    ELSE IF IsBinary(target, "Join") THEN
        LET next_lhs == target.lhs
            next_rhs == target.rhs
            new_join_lhs == IF columns_required(self) \subseteq next_lhs.columns
                            THEN invoke("PartialJoin_insert_recursive", <<self, next_lhs, lock>>)
                            ELSE PyNone
        IN  IF IsError(new_join_lhs) THEN new_join_lhs
            ELSE IF IsRelation(new_join_lhs)
                THEN invoke("binary_apply", <<target.operation, new_join_lhs, next_rhs>>)
            ELSE
            LET new_join_rhs == IF columns_required(self) \subseteq next_rhs.columns
                                THEN invoke("PartialJoin_insert_recursive", <<self, next_rhs, lock>>)
                                ELSE PyNone
            IN  IF IsRelation(new_join_rhs)
                    THEN invoke("binary_apply", <<target.operation, next_lhs, new_join_rhs>>)
                ELSE new_join_rhs
    ELSE IF IsBinary(target, "Chain") THEN
        LET new_union_lhs == invoke("PartialJoin_insert_recursive", <<self, target.lhs, lock>>)
        IN  IF IsError(new_union_lhs) THEN new_union_lhs
            ELSE
            LET new_union_rhs == invoke("PartialJoin_insert_recursive", <<self, target.rhs, lock>>)
            IN  IF IsError(new_union_rhs) THEN new_union_rhs
                ELSE IF IsRelation(new_union_lhs) /\ IsRelation(new_union_rhs)
                    THEN invoke("binary_apply", <<target.operation, new_union_lhs, new_union_rhs>>)
                ELSE PyNone
    ELSE PyNone

\* ---------------------------------------------------------------- dispatch

\* operation.apply(target) with the defaults of the operation's class, as
\* the _insert_recursive methods call it to put an operation back.
apply(operation, target) ==
    CASE operation.type = "Calculation" -> Calculation_apply(operation, target, DefaultKw)
      [] operation.type = "Projection" -> Projection_apply(operation, target, DefaultKw)
      [] operation.type = "Selection" -> Selection_apply(operation, target, DefaultKw)
      [] operation.type = "Deduplication" -> Deduplication_apply(operation, target, DefaultKw)
      [] operation.type = "Sort" -> Sort_apply(operation, target, DefaultKw)
      [] operation.type = "Slice" -> Slice_apply(operation, target, FALSE)
      [] operation.type = "Materialization" ->
            Materialization_apply(operation, target, TRUE, FALSE)
      [] operation.type = "Transfer" -> Transfer_apply(operation, target, FALSE, FALSE)

\* operation.apply(lhs, rhs) with the defaults, for a Join or a Chain.
binary_apply(operation, lhs, rhs) ==
    IF operation.type = "Join" THEN Join_apply(operation, lhs, rhs, FALSE, FALSE)
    ELSE Chain_apply(operation, lhs, rhs, FALSE, FALSE)


(***************************************************************************)
(* The sql engine: a tree in that engine is converted to a SELECT.         *)
(***************************************************************************)

\* Engine.extract_mapping: each tag to the column of the FROM clause that
\* has its name.
extract_mapping(tags) == [tag \in tags |-> [kind |-> "column", name |-> tag]]

\* Engine.convert_column_expression: the expression over the logical columns
\* it is given.
convert_column_expression(expression, columns_available) ==
    [kind |-> "expression", expression |-> expression, over |-> columns_available]

\* Engine.convert_sort_term
convert_sort_term(term, columns_available) ==
    [expression |-> convert_column_expression(term.expression, columns_available),
     ascending |-> term.ascending]

\* Engine.convert_flattened_predicate: a list of boolean SQL terms.
convert_flattened_predicate(predicate, columns_available) ==
    <<[predicate |-> predicate, over |-> columns_available]>>

\* sql.SelectParts
SelectParts(from_clause, where, columns_available) ==
    [kind |-> "parts", from_clause |-> from_clause, where |-> where,
     columns_available |-> columns_available]

\* The payload of a leaf of the sql engine: the parts of a SELECT from its table.
leaf_payload(relation) ==
    SelectParts([kind |-> "table", leaf |-> relation], <<>>, None)

\* SelectBase.subquery()
subquery(select) == [kind |-> "subquery", select |-> select]

\* SelectParts.full_copy
SelectParts_full_copy(self, columns) ==
    SelectParts(self.from_clause, self.where,
                Some(IF self.columns_available = None THEN extract_mapping(columns)
                     ELSE TheValue(self.columns_available)))

\* SelectParts.to_executable: the statement has an OFFSET when offset is not
\* zero (NoneInt: it has none) and a LIMIT when limit is not None.
SelectParts_to_executable(self, select_columns, distinct, order_by, offset, limit) ==
    LET columns_available ==
            IF self.columns_available = None THEN extract_mapping(select_columns)
            ELSE TheValue(self.columns_available)
        columns_projected ==
            IF self.columns_available = None THEN columns_available
            ELSE [tag \in select_columns |-> columns_available[tag]]
    IN  [kind |-> "select",
         columns |-> columns_projected,
         from_clause |-> self.from_clause,
         where |-> self.where,
         distinct |-> distinct,
         order_by |-> [i \in DOMAIN order_by |->
                           convert_sort_term(order_by[i], columns_available)],
         offset |-> IF offset # 0 THEN offset ELSE NoneInt,
         limit |-> limit]

\* FullSelectParts.from_relation
FullSelectParts_from_relation(relation) ==
    LET parts == invoke("SelectParts_from_relation", <<relation>>)
    IN  IF IsError(parts) THEN parts
        ELSE SelectParts_full_copy(parts, relation.columns)

\* SelectParts.from_relation
SelectParts_from_relation(relation) ==
    IF engine(relation) # "sql" THEN Raise("EngineError")
    ELSE IF relation.kind = "leaf" THEN leaf_payload(relation)
    ELSE IF IsUnary(relation, "Materialization") THEN Raise("EngineError")
    ELSE IF IsUnary(relation, "Calculation") THEN
        LET result == FullSelectParts_from_relation(relation.target)
        IN  IF IsError(result) THEN result
            ELSE LET available == TheValue(result.columns_available)
                     tag == relation.operation.tag
                 IN  SelectParts(result.from_clause, result.where,
                                 Some([t \in DOMAIN available \cup {tag} |->
                                          IF t = tag
                                          THEN convert_column_expression(
                                                   relation.operation.expression, available)
                                          ELSE available[t]]))
    ELSE IF IsUnary(relation, "Projection") THEN
        invoke("SelectParts_from_relation", <<relation.target>>)
    ELSE IF IsUnary(relation, "Selection") THEN
        LET result == FullSelectParts_from_relation(relation.target)
        IN  IF IsError(result) THEN result
            ELSE SelectParts(result.from_clause,
                             result.where \o convert_flattened_predicate(
                                 relation.operation.predicate,
                                 TheValue(result.columns_available)),
                             result.columns_available)
    ELSE IF relation.kind = "binary" /\ relation.operation.type = "Join" THEN
        LET lhs_parts == FullSelectParts_from_relation(relation.lhs)
            rhs_parts == FullSelectParts_from_relation(relation.rhs)
        IN  IF IsError(lhs_parts) THEN lhs_parts
            ELSE IF IsError(rhs_parts) THEN rhs_parts
            ELSE
            LET lhs_available == TheValue(lhs_parts.columns_available)
                rhs_available == TheValue(rhs_parts.columns_available)
                columns_available ==
                    [t \in DOMAIN lhs_available \cup DOMAIN rhs_available |->
                        IF t \in DOMAIN rhs_available THEN rhs_available[t]
                        ELSE lhs_available[t]]
                predicate == relation.operation.predicate
            IN  IF ~(relation.operation.min_columns
                         \subseteq DOMAIN lhs_available \cap DOMAIN rhs_available)
                THEN Raise("KeyError")
                ELSE
                SelectParts(
                    [kind |-> "join",
                     lhs |-> lhs_parts.from_clause,
                     rhs |-> rhs_parts.from_clause,
                     on_common |-> [tag \in relation.operation.min_columns |->
                                       <<lhs_available[tag], rhs_available[tag]>>],
                     on_terms |-> IF as_trivial(predicate) # "True"
                                  THEN convert_flattened_predicate(predicate, columns_available)
                                  ELSE <<>>],
                    lhs_parts.where \o rhs_parts.where,
                    Some(columns_available))
    ELSE
        LET executable == invoke("to_executable", <<relation, FALSE, <<>>, 0, None>>)
        IN  IF IsError(executable) THEN executable
            ELSE SelectParts(subquery(executable), <<>>, None)

\* Slice.limit: None, or the difference of stop and start, whatever its sign.
Slice_limit(self) == IF self.stop = NoneInt THEN None ELSE Some(self.stop - self.start)

\* sql.Engine.to_executable(relation, distinct, order_by, offset, limit),
\* limit being None or Some(n).
to_executable(relation, distinct, order_by, offset, limit) ==
    IF engine(relation) # "sql" THEN Raise("EngineError")
    ELSE IF relation.kind = "leaf" THEN
        SelectParts_to_executable(invoke("SelectParts_from_relation", <<relation>>), relation.columns,
                                  distinct, order_by, offset, limit)
    ELSE IF relation.kind = "unary" THEN
        LET operation == relation.operation
            target == relation.target
        IN  CASE operation.type = "Deduplication" ->
                    invoke("to_executable", <<target, TRUE, order_by, offset, limit>>)
              [] operation.type = "Slice" ->
                    IF offset # 0 \/ (limit # None /\ TheValue(limit) # 0) THEN
                        LET new_relation ==
                                invoke("apply",
                                       <<Slice(offset,
                                               IF limit # None
                                               THEN offset + TheValue(limit)
                                               ELSE NoneInt),
                                         relation>>)
                        IN  IF IsError(new_relation) THEN new_relation
                            ELSE invoke("to_executable",
                                        <<new_relation, distinct, order_by, 0, None>>)
                    ELSE IF distinct \/ order_by # <<>> THEN
                        LET parts == invoke("SelectParts_from_relation", <<relation>>)
                        IN  IF IsError(parts) THEN parts
                            ELSE SelectParts_to_executable(parts, relation.columns,
                                                           distinct, order_by, 0, None)
                    ELSE
                        invoke("to_executable",
                               <<target, distinct, order_by, operation.start,
                                 Slice_limit(operation)>>)
              [] operation.type = "Sort" ->
                    IF order_by # <<>> THEN
                        LET new_relation == invoke("apply", <<Sort(order_by), relation>>)
                        IN  IF IsError(new_relation) THEN new_relation
                            ELSE invoke("to_executable",
                                        <<new_relation, distinct, <<>>, offset, limit>>)
                    ELSE
                        invoke("to_executable",
                               <<target, distinct, operation.terms, offset, limit>>)
              [] operation.type = "Transfer" -> Raise("EngineError")
              [] operation.type \in {"Calculation", "Materialization",
                                     "Projection", "Selection"} ->
                    LET parts == invoke("SelectParts_from_relation", <<relation>>)
                    IN  IF IsError(parts) THEN parts
                        ELSE SelectParts_to_executable(parts, relation.columns,
                                                       distinct, order_by, offset, limit)
              [] OTHER -> Raise("EngineError")
    ELSE IF relation.operation.type = "Chain" THEN
        LET lhs_result == invoke("to_executable", <<relation.lhs, FALSE, <<>>, 0, None>>)
            rhs_result == invoke("to_executable", <<relation.rhs, FALSE, <<>>, 0, None>>)
        IN  IF IsError(lhs_result) THEN lhs_result
            ELSE IF IsError(rhs_result) THEN rhs_result
            ELSE [kind |-> "union",
                  all |-> ~distinct,
                  lhs |-> lhs_result,
                  rhs |-> rhs_result,
                  order_by |-> [i \in DOMAIN order_by |->
                                    convert_sort_term(order_by[i],
                                                      extract_mapping(relation.columns))],
                  offset |-> IF offset # 0 THEN offset ELSE NoneInt,
                  limit |-> limit]
    ELSE IF relation.operation.type = "Join" THEN
        LET parts == invoke("SelectParts_from_relation", <<relation>>)
        IN  IF IsError(parts) THEN parts
            ELSE SelectParts_to_executable(parts, relation.columns,
                                           distinct, order_by, offset, limit)
    ELSE Raise("EngineError")

\* A call of one method from within another: the method named is run on the
\* arguments given.
invoke(method, args) ==
    CASE method = "Calculation_apply" ->
            Calculation_apply(args[1], args[2], args[3])
      [] method = "Calculation_insert_recursive" ->
            Calculation_insert_recursive(args[1], args[2], args[3], args[4])
      [] method = "Selection_apply" ->
            Selection_apply(args[1], args[2], args[3])
      [] method = "Selection_insert_recursive" ->
            Selection_insert_recursive(args[1], args[2], args[3], args[4])
      [] method = "Projection_apply" ->
            Projection_apply(args[1], args[2], args[3])
      [] method = "Projection_insert_recursive" ->
            Projection_insert_recursive(args[1], args[2], args[3], args[4])
      [] method = "Deduplication_apply" ->
            Deduplication_apply(args[1], args[2], args[3])
      [] method = "Deduplication_insert_recursive" ->
            Deduplication_insert_recursive(args[1], args[2], args[3], args[4])
      [] method = "Sort_apply" ->
            Sort_apply(args[1], args[2], args[3])
      [] method = "Sort_insert_recursive" ->
            Sort_insert_recursive(args[1], args[2], args[3], args[4])
      [] method = "PartialJoin_apply" ->
            PartialJoin_apply(args[1], args[2], args[3])
      [] method = "PartialJoin_insert_recursive" ->
            PartialJoin_insert_recursive(args[1], args[2], args[3])
      [] method = "apply" ->
            apply(args[1], args[2])
      [] method = "binary_apply" ->
            binary_apply(args[1], args[2], args[3])
      [] method = "SelectParts_from_relation" ->
            SelectParts_from_relation(args[1])
      [] method = "to_executable" ->
            to_executable(args[1], args[2], args[3], args[4], args[5])

(***************************************************************************)
(* Leaves of the iteration engine, made from rows held in memory.          *)
(***************************************************************************)

\* iteration.RowSequence: the rows, each a mapping from column to value.
RowSequence(rows) == [kind |-> "sequence", rows |-> rows]

\* The values of a row in the columns of a unique key, in the key's order.
KeyOf(row, unique_key) == [j \in DOMAIN unique_key |-> row[unique_key[j]]]

\* RowSequence.to_mapping, had it kept every row under its position.
RowSequence_to_mapping_by_position(self, unique_key) ==
    [kind |-> "mapping",
     items |-> [key \in {<<i>> : i \in DOMAIN self.rows} |-> self.rows[key[1]]]]

\* RowSequence.to_mapping(unique_key): the rows by their key; of the rows
\* that share a key the last one stays.
RowSequence_to_mapping(self, unique_key) ==
    [kind |-> "mapping",
     items |-> [key \in {KeyOf(self.rows[i], unique_key) : i \in DOMAIN self.rows} |->
                   LET held == {i \in DOMAIN self.rows : KeyOf(self.rows[i], unique_key) = key}
                   IN  self.rows[CHOOSE i \in held : \A j \in held : j <= i]]]

\* len(payload)
payload_len(payload) ==
    IF payload.kind = "sequence" THEN Len(payload.rows)
    ELSE Cardinality(DOMAIN payload.items)

\* iteration.Engine.make_leaf: the leaf has as many rows as the payload.
make_leaf(eng, columns, payload) ==
    LeafRelation(eng, columns, payload_len(payload), payload_len(payload))

(***************************************************************************)
(* The client: it holds one relation and calls apply() on it.              *)
(***************************************************************************)

\* How many results the client builds upon, one after the other.
MaxDepth == 1

\* The largest finite row count of a leaf.
MaxLeafRows == 2

\* The largest index a Slice is given.
MaxSlice == 2

\* Leaves: relations with columns in either engine; in the sql engine also
\* the join identity, an empty relation, one of unknown size and one with
\* no key column.
Leaves ==
    {LeafRelation(e, {"a", "b"}, 1, MaxLeafRows) : e \in Engines}
    \cup {LeafRelation("sql", {}, 1, 1),
          LeafRelation("sql", {"a", "b"}, 0, 0),
          LeafRelation("sql", {"a", "b"}, 0, NoneInt),
          LeafRelation("sql", {"a", "c"}, 1, MaxLeafRows),
          LeafRelation("sql", {"c"}, 1, MaxLeafRows)}

\* The engine that is not the given one.
OtherEngine(e) == CHOOSE other \in Engines : other # e

\* Relations of one operation over a leaf, one of them locked, as an earlier
\* client left them.
Upstream ==
    LET leaf == LeafRelation("sql", {"a", "b"}, 1, MaxLeafRows)
    IN  {invoke("apply", <<operation, leaf>>) :
             operation \in {Selection(Expression({"a"}, Engines)), Projection({"a"}),
                            Sort(<<SortTerm(Expression({"a"}, Engines), TRUE)>>),
                            Slice(0, MaxSlice), Deduplication(Some({"a"})),
                            Calculation("c", Expression({"a"}, Engines))}}
        \cup {invoke("Selection_apply", <<Selection(Expression({"b"}, Engines)), leaf, LockKw(TRUE)>>)}

\* The relations the client starts from: a leaf, or a relation transferred
\* to the other engine.
Seeds ==
    Leaves
    \cup {Transfer_apply(Transfer(OtherEngine(engine(r))), r, FALSE, FALSE) :
              r \in Upstream \cup {l \in Leaves : l.columns = {"a", "b"} /\ l.min_rows = 1}}

\* The second operand of a Join or a Chain: a leaf, or a leaf transferred.
Operands ==
    {LeafRelation("sql", {"a", "b"}, 1, MaxLeafRows),
     LeafRelation("sql", {"a", "c"}, 1, MaxLeafRows),
     LeafRelation("iteration", {"a", "b"}, 1, MaxLeafRows),
     Transfer_apply(Transfer("iteration"), LeafRelation("sql", {"a", "c"}, 1, MaxLeafRows),
                    FALSE, FALSE),
     Transfer_apply(Transfer("iteration"), LeafRelation("sql", {"a", "b"}, 1, MaxLeafRows),
                    FALSE, FALSE),
     LeafRelation("sql", {}, 1, 1)}

\* Arguments of the operations.
Expressions == {Expression({"a"}, Engines), Expression({"b"}, {"iteration"})}
Predicates == Expressions \cup {LiteralTrue, LiteralFalse}
CalculationTags == {"c"}
ProjectionColumns == {{"a"}, {"a", "c"}}
UniqueKeys == {None, Some({"a"}), Some({"c"})}
SortTerms == {<<>>, <<SortTerm(Expression({"a"}, Engines), TRUE)>>,
              <<SortTerm(Expression({"b"}, Engines), FALSE)>>,
              <<SortTerm(Expression({"c"}, Engines), TRUE)>>}
Slices == {Slice(start, stop) : start \in 0..1, stop \in {NoneInt} \cup 1..MaxSlice}
Joins == {Join(LiteralTrue, {}, None), Join(LiteralTrue, {"b"}, Some({"b", "c"})),
          Join(Expression({"a"}, Engines), {"b"}, Some({"b"}))}

\* Keyword arguments: backtrack, transfer and require_preferred_engine are
\* read only when a preferred engine other than the target's is given.
KwChoices(target) ==
    {Kw(NoEngine, TRUE, FALSE, FALSE, lock, strip) : lock \in BOOLEAN, strip \in BOOLEAN}
    \cup {Kw(OtherEngine(engine(target)), bt, tr, req, FALSE, strip) :
              bt \in BOOLEAN, tr \in BOOLEAN, req \in BOOLEAN, strip \in BOOLEAN}
    \cup {Kw(OtherEngine(engine(target)), TRUE, FALSE, FALSE, TRUE, FALSE)}

\* Keyword arguments of the operations that take lock and strip_ordering only.
PlainKwChoices ==
    {Kw(NoEngine, TRUE, FALSE, FALSE, FALSE, FALSE),
     Kw(NoEngine, TRUE, FALSE, FALSE, TRUE, FALSE),
     Kw(NoEngine, TRUE, FALSE, FALSE, FALSE, TRUE)}

\* Rows to make a leaf of: at most MaxPayloadRows rows over the columns a
\* and b, with values up to MaxPayloadValue.
MaxPayloadRows == 3
MaxPayloadValue == 1
PayloadRows == [{"a", "b"} -> 0..MaxPayloadValue]
PayloadSequences == UNION {[1..n -> PayloadRows] : n \in 0..MaxPayloadRows}
PayloadKeys == {<<"a", "b">>, <<"a">>}

VARIABLES relation, depth, call

vars == <<relation, depth, call>>

NoCall == [made |-> FALSE]

\* The record of a call: the operation as the client built it, its
\* target(s), its keyword arguments and what apply() returned or raised.
Call(operation, targets, kw, result) ==
    [made |-> TRUE, operation |-> operation, targets |-> targets,
     kw |-> kw, result |-> result]

Init ==
    /\ relation \in Seeds
    /\ depth = 0
    /\ call = NoCall

CalculationApply ==
    /\ call = NoCall
    /\ \E tag \in CalculationTags, expression \in Expressions, kw \in KwChoices(relation) :
           LET self == Calculation(tag, expression)
           IN  call' = Call(self, <<relation>>, kw, invoke("Calculation_apply", <<self, relation, kw>>))
    /\ UNCHANGED <<relation, depth>>

ProjectionApply ==
    /\ call = NoCall
    /\ \E columns \in ProjectionColumns, kw \in KwChoices(relation) :
           LET self == Projection(columns)
           IN  call' = Call(self, <<relation>>, kw, invoke("Projection_apply", <<self, relation, kw>>))
    /\ UNCHANGED <<relation, depth>>

SelectionApply ==
    /\ call = NoCall
    /\ \E predicate \in Predicates, kw \in KwChoices(relation) :
           LET self == Selection(predicate)
           IN  call' = Call(self, <<relation>>, kw, invoke("Selection_apply", <<self, relation, kw>>))
    /\ UNCHANGED <<relation, depth>>

DeduplicationApply ==
    /\ call = NoCall
    /\ \E unique_key \in UniqueKeys, kw \in KwChoices(relation) :
           LET self == Deduplication(unique_key)
           IN  call' = Call(self, <<relation>>, kw, invoke("Deduplication_apply", <<self, relation, kw>>))
    /\ UNCHANGED <<relation, depth>>

SortApply ==
    /\ call = NoCall
    /\ \E terms \in SortTerms, kw \in KwChoices(relation) :
           /\ ~kw.strip_ordering
           /\ LET self == Sort(terms)
              IN  call' = Call(self, <<relation>>, kw, invoke("Sort_apply", <<self, relation, kw>>))
    /\ UNCHANGED <<relation, depth>>

SliceApply ==
    /\ call = NoCall
    /\ \E self \in Slices, lock \in BOOLEAN :
           call' = Call(self, <<relation>>, LockKw(lock), Slice_apply(self, relation, lock))
    /\ UNCHANGED <<relation, depth>>

MaterializationApply ==
    /\ call = NoCall
    /\ \E kw \in PlainKwChoices :
           LET self == Materialization("m")
           IN  call' = Call(self, <<relation>>, kw,
                            Materialization_apply(self, relation, kw.lock, kw.strip_ordering))
    /\ UNCHANGED <<relation, depth>>

TransferApply ==
    /\ call = NoCall
    /\ \E destination \in Engines, kw \in PlainKwChoices :
           LET self == Transfer(destination)
           IN  call' = Call(self, <<relation>>, kw,
                            Transfer_apply(self, relation, kw.lock, kw.strip_ordering))
    /\ UNCHANGED <<relation, depth>>

IdentityApply ==
    /\ call = NoCall
    /\ \E lock \in BOOLEAN :
           call' = Call(Identity, <<relation>>, LockKw(lock),
                        Identity_apply(Identity, relation, lock))
    /\ UNCHANGED <<relation, depth>>

JoinApply ==
    /\ call = NoCall
    /\ \E self \in Joins, other \in Operands, relation_is_lhs \in BOOLEAN,
          kw \in PlainKwChoices :
           LET lhs == IF relation_is_lhs THEN relation ELSE other
               rhs == IF relation_is_lhs THEN other ELSE relation
           IN  call' = Call(self, <<lhs, rhs>>, kw,
                            Join_apply(self, lhs, rhs, kw.lock, kw.strip_ordering))
    /\ UNCHANGED <<relation, depth>>

ChainApply ==
    /\ call = NoCall
    /\ \E other \in Operands, relation_is_lhs \in BOOLEAN, kw \in PlainKwChoices :
           LET lhs == IF relation_is_lhs THEN relation ELSE other
               rhs == IF relation_is_lhs THEN other ELSE relation
           IN  call' = Call(Chain, <<lhs, rhs>>, kw,
                            Chain_apply(Chain, lhs, rhs, kw.lock, kw.strip_ordering))
    /\ UNCHANGED <<relation, depth>>

\* Join.partial(fixed) and then PartialJoin.apply(relation).
PartialJoinApply ==
    /\ call = NoCall
    /\ \E binary \in Joins, fixed \in Operands, fixed_is_lhs \in BOOLEAN,
          backtrack \in BOOLEAN, transfer \in BOOLEAN, plain \in PlainKwChoices :
           LET self == Join_partial(binary, fixed, fixed_is_lhs, plain.strip_ordering)
               kw == Kw(NoEngine, backtrack, transfer, FALSE, plain.lock, plain.strip_ordering)
           IN  call' = Call(PartialJoin(binary, fixed, fixed_is_lhs), <<relation>>, kw,
                            IF IsError(self) THEN self
                            ELSE invoke("PartialJoin_apply", <<self, relation, kw>>))
    /\ UNCHANGED <<relation, depth>>

\* The client makes a leaf in the iteration engine from rows in memory, as
\* a sequence or as a mapping by a unique key, before it builds upon
\* anything.
MakeLeaf ==
    /\ call = NoCall
    /\ depth = 0
    /\ \E rows \in PayloadSequences, unique_key \in PayloadKeys, as_mapping \in BOOLEAN :
           LET payload == IF as_mapping
                          THEN RowSequence_to_mapping(RowSequence(rows), unique_key)
                          ELSE RowSequence(rows)
               made == [type |-> "make_leaf", engine |-> "iteration",
                        columns |-> {"a", "b"}, rows |-> rows,
                        unique_key |-> unique_key, payload |-> payload]
           IN  call' = Call(made, <<>>, DefaultKw,
                            make_leaf("iteration", {"a", "b"}, payload))
    /\ UNCHANGED <<relation, depth>>

\* The client goes on with the relation the call returned.
Continue ==
    /\ call # NoCall
    /\ IsRelation(call.result)
    /\ depth < MaxDepth
    /\ relation' = call.result
    /\ depth' = depth + 1
    /\ call' = NoCall

\* The client drops the result (or handles the exception) and keeps its relation.
Discard ==
    /\ call # NoCall
    /\ call' = NoCall
    /\ UNCHANGED <<relation, depth>>

Next ==
    \/ CalculationApply
    \/ ProjectionApply
    \/ SelectionApply
    \/ DeduplicationApply
    \/ SortApply
    \/ SliceApply
    \/ MaterializationApply
    \/ TransferApply
    \/ IdentityApply
    \/ JoinApply
    \/ ChainApply
    \/ PartialJoinApply
    \/ MakeLeaf
    \/ Continue
    \/ Discard

Spec == Init /\ [][Next]_vars

\* The client of the sql engine starts from a leaf of that engine of unknown
\* size, or from one operation over it.
SqlSeeds ==
    LET leaf == LeafRelation("sql", {"a", "b"}, 0, NoneInt)
    IN  {leaf}
        \cup {invoke("apply", <<operation, leaf>>) :
                  operation \in {Slice(0, MaxSlice), Slice(1, MaxSlice + 1),
                                 Sort(<<SortTerm(Expression({"a"}, Engines), TRUE)>>),
                                 Deduplication(Some({"a", "b"})),
                                 Selection(Expression({"a"}, Engines))}}

SqlInit ==
    /\ relation \in SqlSeeds
    /\ depth = 0
    /\ call = NoCall

\* The largest offset and the largest limit to_executable is called with.
MaxOffset == 1
MaxLimit == 2

\* The client asks the sql engine for the SELECT of the relation it holds,
\* from a row on and for so many rows.
ToExecutable ==
    /\ call = NoCall
    /\ \E offset \in 0..MaxOffset, limit \in {None} \cup {Some(n) : n \in 0..MaxLimit} :
           call' = Call([type |-> "to_executable", offset |-> offset, limit |-> limit],
                        <<relation>>, DefaultKw,
                        invoke("to_executable", <<relation, FALSE, <<>>, offset, limit>>))
    /\ UNCHANGED <<relation, depth>>

SqlNext == Next \/ ToExecutable

SqlSpec == SqlInit /\ [][SqlNext]_vars

(***************************************************************************)
(* Properties.                                                             *)
(***************************************************************************)

RECURSIVE Nodes(_)
\* Every node of a tree, the root included.
Nodes(r) ==
    {r} \cup (CASE r.kind = "unary" -> Nodes(r.target)
                [] r.kind = "binary" -> Nodes(r.lhs) \cup Nodes(r.rhs)
                [] OTHER -> {})

\* The call just made returned a relation.
Returned == call.made /\ IsRelation(call.result)

\* The call just made raised the given exception.
Raised(e) == call.made /\ IsError(call.result) /\ call.result.error = e

\* The trees the client has built: the one it holds and the one just returned.
Built == {relation} \cup (IF Returned THEN {call.result} ELSE {})

\* Every node of every tree built.
BuiltNodes == UNION {Nodes(r) : r \in Built}

\* C1: every relation built by apply calls from leaves with
\* min_rows <= max_rows has min_rows <= max_rows when max_rows is finite.
RowCountsOrdered ==
    \A n \in BuiltNodes : max_rows(n) # NoneInt => min_rows(n) <= max_rows(n)

\* C2: no Sort, Slice, Selection or Projection node has a node of the same
\* kind as its direct target.
NoAdjacentSameKind ==
    \A n \in BuiltNodes :
        (n.kind = "unary" /\ n.operation.type \in {"Sort", "Slice", "Selection", "Projection"})
            => ~IsUnary(n.target, n.operation.type)

\* A same-kind operation was applied right onto a node of its kind and a
\* relation came back.
MergedSameKind ==
    /\ Returned
    /\ call.operation.type \in {"Sort", "Slice", "Selection", "Projection"}
    /\ IsUnary(call.targets[1], call.operation.type)
    /\ call.result # call.targets[1]

\* C4: a unary node that is no Transfer has the engine of its target, and
\* the operands of a Join or Chain node have the same engine.
EnginesConsistent ==
    \A n \in BuiltNodes :
        /\ (n.kind = "unary" /\ n.operation.type # "Transfer")
               => engine(n) = engine(n.target)
        /\ n.kind = "binary" => engine(n.lhs) = engine(n.rhs)

\* Backtracking rebuilt a tree with a Join or Chain in it, in two engines.
RebuiltAcrossEngines ==
    /\ Returned
    /\ call.kw.preferred_engine # NoEngine
    /\ call.kw.backtrack
    /\ engine(call.result) # call.kw.preferred_engine
    /\ \E n \in Nodes(call.result) : n.kind = "binary"
    /\ \E n \in Nodes(call.result) : engine(n) = call.kw.preferred_engine
    /\ call.result \notin Nodes(call.targets[1])
    /\ ~(call.targets[1] \in Nodes(call.result))

\* C7: no node has an Identity or a PartialJoin as its operation.
NoIdentityOrPartialJoinNode ==
    \A n \in BuiltNodes :
        n.kind # "leaf" => n.operation.type \notin {"Identity", "PartialJoin"}

\* A PartialJoin was applied and returned a Join node.
PartialJoinBuiltJoin ==
    /\ Returned
    /\ call.operation.type = "PartialJoin"
    /\ IsBinary(call.result, "Join")

\* The operations of the UnaryOperation classes that build nodes.
UnaryTypes ==
    {"Calculation", "Projection", "Selection", "Deduplication", "Sort", "Slice",
     "Materialization", "Transfer"}

\* C3: applying a unary operation leaves every locked node of the target,
\* the target itself included, as an intact subtree of the result.
LockedPartsKept ==
    (Returned /\ call.operation.type \in UnaryTypes /\ ~call.kw.strip_ordering)
        => \A n \in Nodes(call.targets[1]) : n.is_locked => n \in Nodes(call.result)

\* A call of Join.apply that got past the checks of the engines and of the
\* predicate.
JoinChecked ==
    /\ call.made
    /\ call.operation.type = "Join"
    /\ engine(call.targets[1]) = engine(call.targets[2])
    /\ is_supported_by(call.operation.predicate, engine(call.targets[1]))
    /\ call.operation.predicate.columns_required
           \subseteq (call.targets[1].columns \cup call.targets[2].columns)

\* C5: a Join node's common columns are columns of both operands, and
\* Join.apply with a resolved join raises ColumnError when either operand
\* lacks a common column.
JoinCommonColumnsPresent ==
    /\ \A n \in BuiltNodes :
           IsBinary(n, "Join") =>
               n.operation.min_columns \subseteq (n.lhs.columns \cap n.rhs.columns)
    /\ (JoinChecked /\ JoinResolved(call.operation)
            /\ ~(call.operation.min_columns
                     \subseteq (call.targets[1].columns \cap call.targets[2].columns)))
           => Raised("ColumnError")

\* The key columns common to both operands of the Join.apply just called,
\* within the join's max_columns.
ExpectedCommonColumns ==
    LET keys == {tag \in call.targets[1].columns \cap call.targets[2].columns : is_key(tag)}
    IN  IF call.operation.max_columns = None THEN keys
        ELSE keys \cap TheValue(call.operation.max_columns)

\* C6: every Join of a node is resolved; an unresolved join given to
\* Join.apply is resolved to the common key columns within max_columns, and
\* ColumnError is raised when these do not contain min_columns.
JoinsResolved ==
    /\ \A n \in BuiltNodes : IsBinary(n, "Join") => JoinResolved(n.operation)
    /\ (JoinChecked /\ ~JoinResolved(call.operation)) =>
           IF call.operation.min_columns \subseteq ExpectedCommonColumns
           THEN (Returned /\ ~is_join_identity(call.targets[1])
                    /\ ~is_join_identity(call.targets[2]))
                    => (/\ IsBinary(call.result, "Join")
                        /\ call.result.operation.min_columns = ExpectedCommonColumns)
           ELSE Raised("ColumnError")

\* An unresolved join with max_columns was resolved to fewer columns than
\* the key columns the operands share.
JoinResolvedWithinMax ==
    /\ JoinChecked /\ ~JoinResolved(call.operation) /\ Returned
    /\ IsBinary(call.result, "Join")
    /\ call.operation.max_columns # None
    /\ call.result.operation.min_columns = ExpectedCommonColumns
    /\ ExpectedCommonColumns
           # {tag \in call.targets[1].columns \cap call.targets[2].columns : is_key(tag)}

\* The operations whose apply() takes a preferred engine.
BacktrackingTypes == {"Calculation", "Selection", "Deduplication", "Sort", "Projection"}

\* The expressions of the operation are supported by every engine.
SupportedEverywhere(operation) ==
    CASE operation.type = "Calculation" -> operation.expression.supported_by = Engines
      [] operation.type = "Selection" -> operation.predicate.supported_by = Engines
      [] operation.type = "Sort" ->
            \A i \in DOMAIN operation.terms :
                operation.terms[i].expression.supported_by = Engines
      [] OTHER -> TRUE

\* The operation as apply() goes on with it: a Deduplication without a
\* unique key has got the key columns of the target.
ResolvedOperation(operation, target) ==
    IF operation.type = "Deduplication" /\ operation.unique_key = None
    THEN Deduplication(Some({tag \in target.columns : is_key(tag)}))
    ELSE operation

\* The call just made: one of the five operations, with a preferred engine
\* that is not the target's, and no exception from the checks of the columns
\* and of the row order.
PreferredElsewhere ==
    /\ call.made
    /\ call.operation.type \in BacktrackingTypes
    /\ WantsOtherEngine(call.targets[1], call.kw)
    /\ SupportedEverywhere(call.operation)
    /\ ~Raised("ColumnError")
    /\ ~Raised("RowOrderError")

\* The target as apply() goes on with it after the check of the row order:
\* without its Sort when strip_ordering is set and the target's engine does
\* not keep the order under the operation.
OrderChecked ==
    IF call.kw.strip_ordering
       /\ ~preserves_order(engine(call.targets[1]), call.operation)
    THEN expect_unordered(call.targets[1], TRUE)
    ELSE call.targets[1]

\* What _insert_recursive makes of the call just made.
Inserted ==
    invoke(call.operation.type \o "_insert_recursive",
           <<ResolvedOperation(call.operation, call.targets[1]),
             OrderChecked, call.kw.preferred_engine, call.kw.lock>>)

\* _insert_recursive found no place for the operation: it returned None,
\* or, for a Projection, the target it was given.
InsertFailed ==
    IF call.operation.type = "Projection"
    THEN Inserted.kind = "found" /\ Inserted.is_target
    ELSE IsNone(Inserted)

\* Backtracking was not asked for, or found no place for the operation.
NotPushed == ~call.kw.backtrack \/ InsertFailed

\* What the claim says of transfer and require_preferred_engine, the
\* Transfer being over the given relation.
TransferElseRequire(target) ==
    IF call.kw.transfer THEN
        /\ Returned
        /\ IsUnary(call.result, call.operation.type)
        /\ IsUnary(call.result.target, "Transfer")
        /\ call.result.target.operation.destination = call.kw.preferred_engine
        /\ call.result.target.target = target
        /\ engine(call.result) = call.kw.preferred_engine
    ELSE IF call.kw.require_preferred_engine THEN Raised("EngineError")
    ELSE /\ call.result = invoke(call.operation.type \o "_apply",
                                 <<call.operation, call.targets[1],
                                   [call.kw EXCEPT !.preferred_engine = NoEngine]>>)
         /\ Returned => engine(call.result) = engine(call.targets[1])

DoesNothing ==
    \/ call.operation.type = "Selection" /\ as_trivial(call.operation.predicate) = "True"
    \/ call.operation.type = "Projection" /\ call.operation.columns = call.targets[1].columns
    \/ call.operation.type = "Sort" /\ call.operation.terms = <<>>

AppliedOnTop ==
    invoke(call.operation.type \o "_apply",
           <<call.operation, call.targets[1],
             [call.kw EXCEPT !.preferred_engine = NoEngine]>>)

\* The call just made: one of the five operations, valid on the target and
\* supported by every engine, with backtracking to a preferred engine that
\* is not the target's.
Backtracked ==
    /\ call.made
    /\ call.operation.type \in BacktrackingTypes
    /\ WantsOtherEngine(call.targets[1], call.kw)
    /\ call.kw.backtrack
    /\ SupportedEverywhere(call.operation)
    /\ IsRelation(AppliedOnTop)

\* C9: backtracking raises no ColumnError and no RowOrderError for an
\* operation that is valid on the target, and EngineError only when
\* require_preferred_engine is set and transfer is not.
BacktrackingNeverRaises ==
    Backtracked =>
        /\ ~Raised("ColumnError")
        /\ ~Raised("RowOrderError")
        /\ Raised("EngineError") =>
               (call.kw.require_preferred_engine /\ ~call.kw.transfer)

\* C10: a tree with the operation pushed upstream has the columns, min_rows
\* and max_rows of the tree with the operation applied on top of the target.
PushedTreeDescribesTheSame ==
    (Backtracked /\ ~InsertFailed /\ Returned) =>
        /\ call.result.columns = AppliedOnTop.columns
        /\ min_rows(call.result) = min_rows(AppliedOnTop)
        /\ max_rows(call.result) = max_rows(AppliedOnTop)

\* The operations whose apply() takes strip_ordering.
StripTypes ==
    {"Calculation", "Projection", "Selection", "Deduplication", "Materialization",
     "Transfer", "Join", "Chain", "PartialJoin"}

\* The call just made, had strip_ordering been false.
WithoutStripOrdering ==
    LET kw == [call.kw EXCEPT !.strip_ordering = FALSE]
        self == call.operation
    IN  CASE self.type = "Materialization" ->
                Materialization_apply(self, call.targets[1], kw.lock, FALSE)
          [] self.type = "Transfer" -> Transfer_apply(self, call.targets[1], kw.lock, FALSE)
          [] self.type = "Join" ->
                Join_apply(self, call.targets[1], call.targets[2], kw.lock, FALSE)
          [] self.type = "Chain" ->
                Chain_apply(self, call.targets[1], call.targets[2], kw.lock, FALSE)
          [] self.type = "PartialJoin" ->
                LET partial == Join_partial(self.binary, self.fixed, self.fixed_is_lhs, FALSE)
                IN  IF IsError(partial) THEN partial
                    ELSE invoke("PartialJoin_apply", <<partial, call.targets[1], kw>>)
          [] OTHER -> invoke(self.type \o "_apply", <<self, call.targets[1], kw>>)

\* A call with strip_ordering that returned a tree without a Sort the
\* target had at its root.
SortStripped ==
    /\ Returned
    /\ call.operation.type \in StripTypes
    /\ call.kw.strip_ordering
    /\ \E i \in DOMAIN call.targets :
           /\ IsUnary(call.targets[i], "Sort")
           /\ \A n \in Nodes(call.result) : n.kind = "leaf" \/ n.operation.type # "Sort"

\* C11: apply() with strip_ordering=True never raises RowOrderError, and
\* where it returned a tree without the Sort of its target the same call
\* with strip_ordering=False raises RowOrderError.
StripOrderingNeverRaises ==
    /\ (call.made /\ call.operation.type \in StripTypes /\ call.kw.strip_ordering)
           => ~Raised("RowOrderError")
    /\ SortStripped =>
           (IsError(WithoutStripOrdering) /\ WithoutStripOrdering.error = "RowOrderError")

\* The type of the node that the operation of the call just made builds.
NodeType == IF call.operation.type = "PartialJoin" THEN "Join" ELSE call.operation.type

\* Every node of the operands of the call just made.
TargetNodes == UNION {Nodes(call.targets[i]) : i \in DOMAIN call.targets}

\* The nodes that the call just made built for its operation: the root of
\* the result when the operation went on top (merged or not), and below the
\* root the nodes that hold the operation as backtracking put it upstream.
OperationNodes ==
    IF ~Returned THEN {}
    ELSE {n \in Nodes(call.result) \ TargetNodes :
              /\ n.kind # "leaf"
              /\ n.operation.type = NodeType
              /\ \/ n = call.result
                    /\ ~(call.kw.backtrack /\ call.operation.type \in BacktrackingTypes
                             /\ WantsOtherEngine(call.targets[1], call.kw))
                 \/ n.operation = ResolvedOperation(call.operation, call.targets[1])}

\* What apply() returns for the operation of the call just made when lock
\* is left to its default.
WithDefaultLock ==
    IF call.operation.type \in UnaryTypes
    THEN invoke("apply", <<call.operation, call.targets[1]>>)
    ELSE IF call.operation.type \in {"Join", "Chain"}
    THEN invoke("binary_apply", <<call.operation, call.targets[1], call.targets[2]>>)
    ELSE call.result

\* C12: the node built for the operation has is_locked equal to the lock
\* argument, and with lock left out the node of a Materialization is locked
\* and the node of any other operation is not.
LockSetsIsLocked ==
    /\ \A n \in OperationNodes : n.is_locked = call.kw.lock
    /\ (call.made /\ call.operation.type \in UnaryTypes \cup {"Join", "Chain"}
            /\ IsRelation(WithDefaultLock) /\ WithDefaultLock \notin TargetNodes
            /\ WithDefaultLock.operation.type = call.operation.type)
           => (WithDefaultLock.is_locked <=> call.operation.type = "Materialization")

\* C13: a Deduplication given a unique key that is not within the columns
\* of its target raises ColumnError, and the unique key of every
\* Deduplication node is within the columns of the node's target.
DeduplicationKeyInColumns ==
    /\ (call.made /\ call.operation.type = "Deduplication"
            /\ call.operation.unique_key # None
            /\ ~(TheValue(call.operation.unique_key) \subseteq call.targets[1].columns))
           => Raised("ColumnError")
    /\ \A n \in BuiltNodes :
           (IsUnary(n, "Deduplication") /\ n.operation.unique_key # None)
               => TheValue(n.operation.unique_key) \subseteq n.target.columns

\* The columns of a relation that are keys.
KeyColumns(r) == {tag \in r.columns : is_key(tag)}

\* C14: a Deduplication without a unique key raises ColumnError on a target
\* with no key column, else the Deduplication node it builds has exactly the
\* key columns of the target as its unique key; no Deduplication node is
\* without a unique key.
DeduplicationKeyResolved ==
    /\ \A n \in BuiltNodes : IsUnary(n, "Deduplication") => n.operation.unique_key # None
    /\ (call.made /\ call.operation.type = "Deduplication"
            /\ call.operation.unique_key = None) =>
           IF KeyColumns(call.targets[1]) = {} THEN Raised("ColumnError")
           ELSE Returned =>
                    \A n \in Nodes(call.result) \ TargetNodes :
                        IsUnary(n, "Deduplication")
                            => n.operation.unique_key = Some(KeyColumns(call.targets[1]))

\* A Deduplication without a unique key was put onto a target that has a
\* column that is no key, and got the key columns only.
DeduplicationGotKeyColumns ==
    /\ Returned
    /\ call.operation.type = "Deduplication"
    /\ call.operation.unique_key = None
    /\ KeyColumns(call.targets[1]) # call.targets[1].columns
    /\ IsUnary(call.result, "Deduplication")
    /\ call.result.operation.unique_key = Some(KeyColumns(call.targets[1]))
    /\ call.result.target = call.targets[1]

\* The longest row sequence the slices are tried on.
MaxRows == 4

\* A relation's rows, as many as given, told apart by their position.
Rows(n) == [i \in 1..n |-> i]

\* rows[start:stop] as Python slices a sequence (stop None: to the end).
PySlice(rows, start, stop) ==
    LET lo == Min(start, Len(rows))
        hi == IF stop = NoneInt THEN Len(rows) ELSE Min(stop, Len(rows))
    IN  IF hi <= lo THEN <<>> ELSE SubSeq(rows, lo + 1, hi)

\* The stop of slice[a:b] over slice[c:d] as one slice: min(d, c + b), a
\* None meaning no bound.
MergedStop(c, d, b) ==
    IF d = NoneInt THEN (IF b = NoneInt THEN NoneInt ELSE c + b)
    ELSE IF b = NoneInt THEN d
    ELSE Min(d, c + b)

\* C15: slice[0:None] returns the target; slice[a:b] applied to slice[c:d]
\* over x returns one Slice node over x with start c + a and stop
\* min(d, c + b), which selects of any row sequence the rows that [c:d] and
\* then [a:b] select.
SlicesCompose ==
    (call.made /\ call.operation.type = "Slice") =>
        LET outer == call.operation
            target == call.targets[1]
        IN  IF outer.start = 0 /\ outer.stop = NoneInt THEN call.result = target
            ELSE IsUnary(target, "Slice") =>
                LET inner == target.operation
                IN  /\ Returned
                    /\ IsUnary(call.result, "Slice")
                    /\ call.result.target = target.target
                    /\ call.result.operation.start = inner.start + outer.start
                    /\ call.result.operation.stop
                           = MergedStop(inner.start, inner.stop, outer.stop)
                    /\ \A n \in 0..MaxRows :
                           PySlice(Rows(n), call.result.operation.start,
                                   call.result.operation.stop)
                               = PySlice(PySlice(Rows(n), inner.start, inner.stop),
                                         outer.start, outer.stop)

\* Two slices with a stop each were merged, the inner one starting after
\* the first row, so that the stop of the outer one was counted from there.
SlicesMergedShifted ==
    /\ Returned
    /\ call.operation.type = "Slice"
    /\ IsUnary(call.targets[1], "Slice")
    /\ call.targets[1].operation.start > 0
    /\ call.operation.stop # NoneInt
    /\ call.targets[1].operation.stop # NoneInt
    /\ IsUnary(call.result, "Slice")
    /\ call.result.operation.stop = call.targets[1].operation.start + call.operation.stop

\* A row, as far as predicates look at it: the columns whose atom it
\* satisfies.  It satisfies a predicate that is not literally false and
\* whose atoms it satisfies all.
Satisfies(row, predicate) ==
    ~predicate.is_false /\ predicate.columns_required \subseteq row

\* A Selection was applied, with no other engine preferred, to a relation
\* that has a Selection at its root, and its predicate is not trivially true.
SelectionOnSelection ==
    /\ call.made
    /\ call.operation.type = "Selection"
    /\ as_trivial(call.operation.predicate) # "True"
    /\ IsUnary(call.targets[1], "Selection")
    /\ ~WantsOtherEngine(call.targets[1], call.kw)

\* C16: a Selection with a trivially true predicate returns the target; a
\* Selection(p) that the target's engine supports, applied to Selection(q)
\* over x, returns one Selection node over x whose predicate needs the
\* columns of q and of p and keeps exactly the rows that satisfy both.
SelectionsMerge ==
    /\ (call.made /\ call.operation.type = "Selection"
            /\ as_trivial(call.operation.predicate) = "True")
           => call.result = call.targets[1]
    /\ (SelectionOnSelection
            /\ call.operation.predicate.columns_required \subseteq call.targets[1].columns
            /\ is_supported_by(call.operation.predicate, engine(call.targets[1])))
           => LET p == call.operation.predicate
                  q == call.targets[1].operation.predicate
              IN  /\ Returned
                  /\ IsUnary(call.result, "Selection")
                  /\ call.result.target = call.targets[1].target
                  /\ call.result.operation.predicate.columns_required
                         = q.columns_required \cup p.columns_required
                  /\ \A row \in SUBSET ColumnTags :
                         Satisfies(row, call.result.operation.predicate)
                             <=> (Satisfies(row, q) /\ Satisfies(row, p))

\* Two Selections whose predicates need different columns were merged.
SelectionsMerged ==
    /\ SelectionOnSelection
    /\ Returned
    /\ IsUnary(call.result, "Selection")
    /\ call.result.target = call.targets[1].target
    /\ ~(call.operation.predicate.columns_required
             \subseteq call.targets[1].operation.predicate.columns_required)
    /\ ~(call.targets[1].operation.predicate.columns_required
             \subseteq call.operation.predicate.columns_required)

\* A Projection onto columns of the target was applied.
ProjectionOfColumns ==
    /\ call.made
    /\ call.operation.type = "Projection"
    /\ call.operation.columns \subseteq call.targets[1].columns

\* The target of the Projection just applied is a Calculation of a column
\* that the Projection drops.
DropsCalculation ==
    /\ IsUnary(call.targets[1], "Calculation")
    /\ call.targets[1].operation.tag \notin call.operation.columns

\* C17: a Projection onto columns A of the target returns a relation with
\* exactly the columns A (and does return one when no other engine is
\* preferred and the row order lets it): the target itself when A is all its
\* columns; applied to a Projection over x, the Projection onto A of x with
\* no Projection under it; applied to a Calculation over x of a column not
\* in A, the Projection of x without the Calculation node and with the row
\* bounds of x.
ProjectionFolds ==
    ProjectionOfColumns =>
        LET A == call.operation.columns
            target == call.targets[1]
            plain == ~WantsOtherEngine(target, call.kw)
        IN  /\ Returned => call.result.columns = A
            /\ (plain /\ ~Raised("RowOrderError")) => Returned
            /\ A = target.columns => call.result = target
            /\ (plain /\ A # target.columns /\ IsUnary(target, "Projection")) =>
                   /\ Returned
                   /\ IsUnary(call.result, "Projection")
                   /\ call.result.operation.columns = A
                   /\ call.result.target \in Nodes(target.target)
                   /\ ~IsUnary(call.result.target, "Projection")
            /\ (plain /\ DropsCalculation) =>
                   /\ Returned
                   /\ target \notin Nodes(call.result)
                   /\ \/ call.result = target.target
                      \/ /\ IsUnary(call.result, "Projection")
                         /\ call.result.target \in Nodes(target.target)
                   /\ min_rows(call.result) = min_rows(target.target)
                   /\ max_rows(call.result) = max_rows(target.target)

\* A Projection dropped the column of the Calculation it was applied to,
\* and some more, and came back as a Projection of the Calculation's target.
ProjectionAbsorbedCalculation ==
    /\ ProjectionOfColumns
    /\ DropsCalculation
    /\ Returned
    /\ IsUnary(call.result, "Projection")
    /\ call.result.target = call.targets[1].target
    /\ call.result.columns = call.operation.columns

\* An operand of the Chain.apply just called, as the Chain node holds it:
\* without its Sort when strip_ordering removed it.
ChainOperand(i) ==
    IF call.kw.strip_ordering /\ ~preserves_order(engine(call.targets[i]), call.operation)
    THEN expect_unordered(call.targets[i], TRUE)
    ELSE call.targets[i]

\* C18: a Selection whose predicate is literally false comes back as a
\* Selection node with a false predicate over the target (less the Sort
\* that strip_ordering removed, and merged with the Selection then at its
\* root, if any); Chain.apply raises
\* EngineError for operands of two engines, else ColumnError for operands of
\* different columns, else returns a new Chain node over both operands,
\* even when one of them has no rows.
DoomedRelationsKept ==
    /\ (call.made /\ call.operation.type = "Selection"
            /\ as_trivial(call.operation.predicate) = "False"
            /\ ~WantsOtherEngine(call.targets[1], call.kw)
            /\ ~Raised("RowOrderError")) =>
           /\ Returned
           /\ IsUnary(call.result, "Selection")
           /\ as_trivial(call.result.operation.predicate) = "False"
           /\ call.result.target =
                  IF IsUnary(OrderChecked, "Selection") THEN OrderChecked.target
                  ELSE OrderChecked
    /\ (call.made /\ call.operation.type = "Chain" /\ ~Raised("RowOrderError")) =>
           IF engine(call.targets[1]) # engine(call.targets[2]) THEN Raised("EngineError")
           ELSE IF call.targets[1].columns # call.targets[2].columns
               THEN Raised("ColumnError")
           ELSE /\ Returned
                /\ IsBinary(call.result, "Chain")
                /\ call.result.lhs = ChainOperand(1)
                /\ call.result.rhs = ChainOperand(2)
                /\ call.result \notin {call.targets[1], call.targets[2]}

\* A Chain node was built over an operand that has no rows.
ChainKeptEmptyOperand ==
    /\ Returned
    /\ call.operation.type = "Chain"
    /\ IsBinary(call.result, "Chain")
    /\ max_rows(call.targets[1]) = 0 \/ max_rows(call.targets[2]) = 0
    /\ call.result.lhs = call.targets[1]
    /\ call.result.rhs = call.targets[2]

\* An operand of the Join.apply just called, as the join goes on with it:
\* without its Sort when strip_ordering removed it.
JoinOperand(i) ==
    IF call.kw.strip_ordering THEN expect_unordered(call.targets[i], TRUE)
    ELSE call.targets[i]

\* The operands of the Join.apply just called have the columns that the
\* join's predicate and common columns ask for.
JoinColumnsValid ==
    /\ call.operation.predicate.columns_required
           \subseteq (call.targets[1].columns \cup call.targets[2].columns)
    /\ IF JoinResolved(call.operation)
       THEN call.operation.min_columns
                \subseteq (call.targets[1].columns \cap call.targets[2].columns)
       ELSE call.operation.min_columns \subseteq ExpectedCommonColumns

\* The Join.apply just called is valid: one engine, which supports the
\* predicate, and the columns asked for.
JoinValid ==
    /\ engine(call.targets[1]) = engine(call.targets[2])
    /\ is_supported_by(call.operation.predicate, engine(call.targets[1]))
    /\ JoinColumnsValid

\* C19: Join.apply with a join identity as an operand returns the other
\* operand and builds no Join node when the join is valid, and raises when
\* the engines or the columns make the join invalid.
JoinIdentityShortcut ==
    (call.made /\ call.operation.type = "Join"
         /\ (is_join_identity(call.targets[1]) \/ is_join_identity(call.targets[2]))) =>
        IF JoinValid THEN
            ~Raised("RowOrderError") =>
                /\ Returned
                /\ call.result = IF is_join_identity(call.targets[1])
                                 THEN JoinOperand(2) ELSE JoinOperand(1)
        ELSE IsError(call.result)

\* The keys that the rows given to make_leaf have among them.
DistinctKeys ==
    {KeyOf(call.operation.rows[i], call.operation.unique_key) :
         i \in DOMAIN call.operation.rows}

ColumnCheckedTypes == {"Calculation", "Selection", "Sort", "PartialJoin", "Projection"}

\* The columns the operation of the call just made reads: for a Projection
\* the columns it keeps.
ColumnsRead ==
    IF call.operation.type = "Projection" THEN call.operation.columns
    ELSE columns_required(call.operation)

\* What the operation of the call just made gives when it is applied to
\* the target itself, behind a Transfer where the engines differ.
AppliedOnTransfer ==
    invoke(call.operation.type \o "_apply",
           <<call.operation, call.targets[1],
             [call.kw EXCEPT !.backtrack = FALSE, !.transfer = TRUE]>>)

\* The call just made asks for backtracking: one of the operations above,
\* valid on the target and reading columns the target has, in another
\* engine than the target's (for a PartialJoin, whose join is resolved and
\* has its common columns in the fixed operand, the engine of that
\* operand).  A Calculation adds a column that no node of the target has.
PushedForColumns ==
    /\ call.made
    /\ call.operation.type \in ColumnCheckedTypes
    /\ call.kw.backtrack
    /\ ColumnsRead \subseteq call.targets[1].columns
    /\ IsRelation(AppliedOnTransfer)
    /\ IF call.operation.type = "PartialJoin"
       THEN /\ JoinResolved(call.operation.binary)
            /\ call.operation.binary.min_columns \subseteq call.operation.fixed.columns
            /\ engine(call.targets[1]) # engine(call.operation.fixed)
       ELSE WantsOtherEngine(call.targets[1], call.kw)
    /\ call.operation.type = "Calculation" =>
           \A n \in Nodes(call.targets[1]) : call.operation.tag \notin n.columns
    /\ ~Raised("RowOrderError")

\* C21: backtracking never applies an operation where one of the columns it
\* requires is missing: when a crossing would lose such a column,
\* backtracking fails and apply() raises no ColumnError.
RequiredColumnsAtInsertion == PushedForColumns => ~Raised("ColumnError")

\* The operations that backtracking never moves upstream of a Slice.
SliceStoppedTypes ==
    {"Calculation", "Projection", "Selection", "Deduplication", "PartialJoin"}

\* The Slice nodes of a tree.
SliceNodes(r) == {n \in Nodes(r) : IsUnary(n, "Slice")}

\* C22: a Calculation, Projection, Selection, Deduplication or PartialJoin
\* is never moved upstream of a Slice: every Slice node of the tree
\* returned is a node of the target, with the tree below it as it was.
NeverUpstreamOfSlice ==
    (Returned /\ call.operation.type \in SliceStoppedTypes) =>
        SliceNodes(call.result) \subseteq SliceNodes(call.targets[1])

\* The operations the claim lets a Sort go past.
SortCrossedTypes ==
    {"Calculation", "Projection", "Selection", "Deduplication", "Slice",
     "Materialization", "Transfer"}

RECURSIVE PathToEngine(_, _)
\* The relation of the preferred engine that lies under unlocked nodes of
\* the operations above, if there is one.
PathToEngine(r, preferred_engine) ==
    IF r.is_locked \/ r.kind # "unary" \/ r.operation.type \notin SortCrossedTypes THEN PyNone
    ELSE IF engine(r.target) = preferred_engine THEN r.target
    ELSE PathToEngine(r.target, preferred_engine)

\* A Sort goes past a node that is not locked, whose operation does not
\* depend on the order of the rows and under which the node's engine keeps
\* that order.
CrossedBySort(r) ==
    /\ ~r.is_locked
    /\ r.kind = "unary"
    /\ ~is_order_dependent(r.operation)
    /\ preserves_order(engine(r), r.operation)

RECURSIVE SortLanding(_, _)
\* The relation of the preferred engine that lies under nodes a Sort goes
\* past, if there is one.
SortLanding(r, preferred_engine) ==
    IF ~CrossedBySort(r) THEN PyNone
    ELSE IF engine(r.target) = preferred_engine THEN r.target
    ELSE SortLanding(r.target, preferred_engine)

\* The call just made: a Sort with terms that every engine supports, with
\* backtracking to a preferred engine that is not the target's.
SortBacktracked ==
    /\ call.made
    /\ call.operation.type = "Sort"
    /\ call.operation.terms # <<>>
    /\ SupportedEverywhere(call.operation)
    /\ WantsOtherEngine(call.targets[1], call.kw)
    /\ call.kw.backtrack

\* The columns the terms of the Sort just applied read.
SortColumns ==
    UNION {call.operation.terms[i].expression.columns_required :
               i \in DOMAIN call.operation.terms}

\* The relation has a Sort node of the preferred engine with the terms of
\* the call, merged with those of a Sort at the root of the given relation,
\* on that relation.
SortPlacedOn(result, landing) ==
    LET merges == IsUnary(landing, "Sort")
        terms == IF merges THEN MergeTerms(call.operation.terms, landing.operation.terms)
                 ELSE call.operation.terms
        base == IF merges THEN landing.target ELSE landing
    IN  \E n \in Nodes(result) :
            /\ IsUnary(n, "Sort")
            /\ n.operation.terms = terms
            /\ n.target = base
            /\ engine(n) = call.kw.preferred_engine

\* C23 as stated: a Sort is moved upstream of any Calculation, Projection,
\* Selection, Deduplication, Slice, Materialization or Transfer to a
\* relation of the preferred engine that has the columns of its terms, and
\* merged with a Sort there.
SortCrossesAll ==
    LET landing == PathToEngine(call.targets[1], call.kw.preferred_engine)
    IN  (SortBacktracked /\ IsRelation(landing) /\ SortColumns \subseteq landing.columns
             /\ ~Raised("RowOrderError")) =>
            /\ Returned
            /\ SortPlacedOn(call.result, landing)

\* C23 amended: a Sort is moved upstream of the nodes whose operation does
\* not depend on the row order (so never of a Slice) and under which the
\* node's engine keeps that order; on a relation of the preferred engine
\* that has the columns of its terms it is applied, merged with a Sort
\* there.  Where there is no such way the call gives what it gives without
\* backtracking.
SortCrossesOrderKeeping ==
    LET landing == SortLanding(call.targets[1], call.kw.preferred_engine)
    IN  SortBacktracked =>
            IF IsNone(landing)
            THEN call.result = invoke("Sort_apply", <<call.operation, call.targets[1],
                                           [call.kw EXCEPT !.backtrack = FALSE]>>)
            ELSE (SortColumns \subseteq landing.columns /\ ~Raised("RowOrderError")) =>
                     /\ Returned
                     /\ SortPlacedOn(call.result, landing)

\* A Sort was moved upstream of a Transfer and merged with the Sort it
\* found in the preferred engine.
SortMergedUpstream ==
    /\ SortBacktracked
    /\ Returned
    /\ IsUnary(call.targets[1], "Transfer")
    /\ IsUnary(call.targets[1].target, "Sort")
    /\ call.targets[1].target.operation.terms # call.operation.terms
    /\ IsUnary(call.result, "Transfer")
    /\ SortPlacedOn(call.result, call.targets[1].target)

\* The operations that backtracking puts into the branches of a Join.
JoinPushedTypes == {"Selection", "Calculation", "PartialJoin"}

\* What _insert_recursive makes of the operation of the call just made and
\* a branch of the Join it was applied to: nothing when the branch does
\* not have the columns the operation requires.
BranchInserted(branch) ==
    IF ~(columns_required(call.operation) \subseteq branch.columns) THEN PyNone
    ELSE IF call.operation.type = "PartialJoin"
        THEN invoke("PartialJoin_insert_recursive", <<call.operation, branch, call.kw.lock>>)
    ELSE invoke(call.operation.type \o "_insert_recursive",
                <<call.operation, branch, call.kw.preferred_engine, call.kw.lock>>)

\* The call just made asks for backtracking into a Join that is not locked,
\* with an operation that is valid on the Join, does something and is
\* supported by every engine, and neither branch raises.
JoinReached ==
    /\ call.made
    /\ call.operation.type \in JoinPushedTypes
    /\ call.kw.backtrack
    /\ IsBinary(call.targets[1], "Join")
    /\ ~call.targets[1].is_locked
    /\ SupportedEverywhere(call.operation)
    /\ ~(call.operation.type = "Selection" /\ DoesNothing)
    /\ columns_required(call.operation) \subseteq call.targets[1].columns
    /\ call.operation.type = "Calculation" => call.operation.tag \notin call.targets[1].columns
    /\ IF call.operation.type = "PartialJoin"
       THEN /\ JoinResolved(call.operation.binary)
            /\ call.operation.binary.min_columns \subseteq call.operation.fixed.columns
            /\ engine(call.targets[1]) # engine(call.operation.fixed)
       ELSE WantsOtherEngine(call.targets[1], call.kw)
    /\ ~IsError(BranchInserted(call.targets[1].lhs))
    /\ ~IsError(BranchInserted(call.targets[1].rhs))

\* What the call just made gives without backtracking.
WithoutBacktracking ==
    invoke(call.operation.type \o "_apply",
           <<call.operation, call.targets[1], [call.kw EXCEPT !.backtrack = FALSE]>>)

\* C24: backtracking into a Join keeps the Join at the root.  A Selection
\* goes into every branch that has its columns and takes it; a Calculation
\* or a PartialJoin goes into the lhs if that takes it and else into the
\* rhs; the other branch stays as it was.  When no branch takes the
\* operation, the call gives what it gives without backtracking.
JoinBranchesTakeOperation ==
    JoinReached =>
        LET lhs == call.targets[1].lhs
            rhs == call.targets[1].rhs
            in_lhs == IsRelation(BranchInserted(lhs))
            in_rhs == IsRelation(BranchInserted(rhs))
                      /\ (call.operation.type = "Selection" \/ ~in_lhs)
        IN  IF ~in_lhs /\ ~in_rhs THEN call.result = WithoutBacktracking
            ELSE /\ Returned
                 /\ IsBinary(call.result, "Join")
                 /\ call.result.operation = call.targets[1].operation
                 /\ call.result.lhs = IF in_lhs THEN BranchInserted(lhs) ELSE lhs
                 /\ call.result.rhs = IF in_rhs THEN BranchInserted(rhs) ELSE rhs

\* A Selection went into both branches of a Join.
SelectionInBothBranches ==
    /\ JoinReached
    /\ call.operation.type = "Selection"
    /\ Returned
    /\ IsBinary(call.result, "Join")
    /\ call.result.lhs # call.targets[1].lhs
    /\ call.result.rhs # call.targets[1].rhs

\* The operations that backtracking puts into the branches of a Chain.
ChainPushedTypes == {"Calculation", "Selection", "PartialJoin", "Projection"}

\* _insert_recursive found a place for the operation of the call just made
\* in the given branch: it returned a relation, and for a Projection not
\* the branch it was given.
BranchTaken(branch) ==
    LET found == BranchInserted(branch)
    IN  IF call.operation.type = "Projection"
        THEN found.kind = "found" /\ ~found.is_target
        ELSE IsRelation(found)

\* The relation _insert_recursive returned for the given branch.
BranchResult(branch) ==
    IF call.operation.type = "Projection" THEN BranchInserted(branch).relation
    ELSE BranchInserted(branch)

\* The call just made asks for backtracking into a Chain that is not
\* locked, with an operation that is valid on the Chain, does something and
\* is supported by every engine, and neither branch raises.
ChainReached ==
    /\ call.made
    /\ call.operation.type \in ChainPushedTypes
    /\ call.kw.backtrack
    /\ IsBinary(call.targets[1], "Chain")
    /\ ~call.targets[1].is_locked
    /\ SupportedEverywhere(call.operation)
    /\ ~(call.operation.type \in {"Selection", "Projection"} /\ DoesNothing)
    /\ columns_required(call.operation) \subseteq call.targets[1].columns
    /\ call.operation.type = "Calculation" => call.operation.tag \notin call.targets[1].columns
    /\ IF call.operation.type = "PartialJoin"
       THEN /\ JoinResolved(call.operation.binary)
            /\ call.operation.binary.min_columns \subseteq call.operation.fixed.columns
            /\ engine(call.targets[1]) # engine(call.operation.fixed)
       ELSE WantsOtherEngine(call.targets[1], call.kw)
    /\ ~IsError(BranchInserted(call.targets[1].lhs))
    /\ ~IsError(BranchInserted(call.targets[1].rhs))

\* C25: backtracking into a Chain puts the operation into both branches or
\* into neither: when both take it a Chain of the two new branches, which
\* have the same columns, is built; when one does not, the call gives what
\* it gives without backtracking, over the Chain as it was.
ChainAllOrNothing ==
    ChainReached =>
        IF BranchTaken(call.targets[1].lhs) /\ BranchTaken(call.targets[1].rhs)
        THEN /\ Returned
             /\ \E n \in Nodes(call.result) :
                    /\ IsBinary(n, "Chain")
                    /\ n.lhs = BranchResult(call.targets[1].lhs)
                    /\ n.rhs = BranchResult(call.targets[1].rhs)
                    /\ n.lhs.columns = n.rhs.columns
        ELSE call.result = WithoutBacktracking

\* The node carries the operation of the call just made, or what that
\* operation has become by merging: the same Calculation or Deduplication;
\* a Selection whose predicate holds only where the one of the call does; a
\* Sort that starts with the terms of the call; a Projection.
CarriesOperation(n) ==
    LET operation == ResolvedOperation(call.operation, call.targets[1])
    IN  /\ IsUnary(n, operation.type)
        /\ CASE operation.type = "Selection" ->
                    /\ operation.predicate.columns_required
                           \subseteq n.operation.predicate.columns_required
                    /\ as_trivial(operation.predicate) = "False"
                           => as_trivial(n.operation.predicate) = "False"
             [] operation.type = "Sort" ->
                    /\ Len(n.operation.terms) >= Len(operation.terms)
                    /\ SubSeq(n.operation.terms, 1, Len(operation.terms)) = operation.terms
             [] operation.type = "Projection" -> TRUE
             [] OTHER -> n.operation = operation

\* The call just made put a new Transfer to the preferred engine into the tree.
AddedTransfer ==
    \E n \in Nodes(call.result) \ TargetNodes :
        IsUnary(n, "Transfer") /\ n.operation.destination = call.kw.preferred_engine

\* The call just made: one of the five operations, doing something, with
\* backtracking to a preferred engine that is not the target's, returned a
\* relation and added no Transfer to that engine.
ReturnedFromBacktracking ==
    /\ Returned
    /\ call.operation.type \in BacktrackingTypes
    /\ WantsOtherEngine(call.targets[1], call.kw)
    /\ call.kw.backtrack
    /\ ~DoesNothing
    /\ ~AddedTransfer

\* Backtracking found a place for the operation: _insert_recursive returned a
\* relation, for a Projection one with just the columns projected to.
BacktrackingPlaced ==
    IF call.operation.type = "Projection"
    THEN /\ Inserted.kind = "found"
         /\ IsRelation(Inserted.relation)
         /\ Inserted.relation.columns = call.operation.columns
    ELSE IsRelation(Inserted)

\* C26: when backtracking finds a place for the operation, or when
\* require_preferred_engine is set and transfer is not, the tree returned is
\* in the target's engine and has a node of the preferred engine that
\* carries the operation.
PlacedInPreferredEngine ==
    (ReturnedFromBacktracking
         /\ (BacktrackingPlaced \/ (call.kw.require_preferred_engine /\ ~call.kw.transfer))) =>
        /\ engine(call.result) = engine(call.targets[1])
        /\ \E n \in Nodes(call.result) :
               CarriesOperation(n) /\ engine(n) = call.kw.preferred_engine

\* The numbers of rows a relation can have when each leaf has a number of
\* rows in its interval (up to MaxLeafRows where the interval has no upper
\* end): a Selection keeps any number of the rows of its target, none when
\* its predicate is false; a Deduplication keeps from one row to all the
\* rows of a target that has rows; a Slice keeps the rows at the positions
\* start..stop-1; a Chain has the rows of both operands; a Join has from
\* none to every pair of rows; every other operation keeps the rows.
RECURSIVE RowCounts(_)
RowCounts(r) ==
    CASE r.kind = "leaf" ->
            r.min_rows .. (IF r.max_rows = NoneInt THEN MaxLeafRows ELSE r.max_rows)
      [] r.kind = "unary" ->
            LET counts == RowCounts(r.target)
            IN  CASE r.operation.type = "Selection" ->
                        IF r.operation.predicate.is_false THEN {0}
                        ELSE UNION {0..n : n \in counts}
                  [] r.operation.type = "Deduplication" ->
                        UNION {Min(1, n)..n : n \in counts}
                  [] r.operation.type = "Slice" ->
                        {Len(PySlice(Rows(n), r.operation.start, r.operation.stop)) :
                             n \in counts}
                  [] OTHER -> counts
      [] r.kind = "binary" ->
            IF r.operation.type = "Join"
            THEN UNION {0..(n * m) : n \in RowCounts(r.lhs), m \in RowCounts(r.rhs)}
            ELSE {n + m : n \in RowCounts(r.lhs), m \in RowCounts(r.rhs)}

\* Every number of rows the relation can have is in its interval.
RowCountsSound(r) ==
    \A n \in RowCounts(r) :
        /\ min_rows(r) <= n
        /\ max_rows(r) # NoneInt => n <= max_rows(r)

\* C27: every node of every tree built has in its interval of min_rows and
\* max_rows every number of rows it can have.
RowCountIntervalsSound == \A n \in BuiltNodes : RowCountsSound(n)

\* The relation has a node of one of the given operations.
HasOperation(r, types) ==
    \E n \in Nodes(r) : n.kind # "leaf" /\ n.operation.type \in types

\* C28: min_rows of every node of every tree built is not negative, also of
\* a Slice that two slices were merged into.
MinRowsNotNegative == \A n \in BuiltNodes : min_rows(n) >= 0

\* The rows of a table: every leaf of the sql engine holds the rows of one
\* table, each row a value for the column a and for the column b.
Tables == PayloadSequences

\* The rows of a leaf, the table being given.
LeafRows(leaf, table) ==
    [i \in DOMAIN table |->
        [c \in leaf.columns |-> IF c \in DOMAIN table[i] THEN table[i][c] ELSE 0]]

\* The value of a column expression for a row: the sum of the columns it reads.
Value(expression, row) ==
    LET of(c) == IF c \in expression.columns_required THEN row[c] ELSE 0
    IN  of("a") + of("b") + of("c")

\* The row satisfies the predicate: the predicate is not literally false
\* and every column it reads is 1.
Holds(predicate, row) ==
    ~predicate.is_false /\ \A c \in predicate.columns_required : row[c] = 1

\* The first key sorts before the second.
LexLess(k1, k2) ==
    \E i \in DOMAIN k1 : k1[i] < k2[i] /\ \A j \in 1..(i - 1) : k1[j] = k2[j]

RECURSIVE StableSort(_)
\* The items by their keys, items with equal keys in the order they had.
StableSort(items) ==
    IF items = <<>> THEN <<>>
    ELSE LET sorted == StableSort(SubSeq(items, 1, Len(items) - 1))
             x == items[Len(items)]
             n == Cardinality({i \in DOMAIN sorted : ~LexLess(x.key, sorted[i].key)})
         IN  SubSeq(sorted, 1, n) \o <<x>> \o SubSeq(sorted, n + 1, Len(sorted))

RECURSIVE Distinct(_)
\* The items less those whose row an earlier item has.
Distinct(items) ==
    IF items = <<>> THEN <<>>
    ELSE LET before == Distinct(SubSeq(items, 1, Len(items) - 1))
             x == items[Len(items)]
         IN  IF \E i \in DOMAIN before : before[i].row = x.row THEN before
             ELSE Append(before, x)

\* Rows as items that have no key.
Keyless(rows) == [i \in DOMAIN rows |-> [row |-> rows[i], key |-> <<>>]]

\* The rows of items.
RowsOf(items) == [i \in DOMAIN items |-> items[i].row]

\* The pairs of a row of the one sequence and a row of the other.
Pairs(lhs, rhs) ==
    [k \in 1..(Len(lhs) * Len(rhs)) |->
        <<lhs[((k - 1) \div Len(rhs)) + 1], rhs[((k - 1) % Len(rhs)) + 1]>>]

\* One row of the columns of both rows of a pair.
Merged(pair) ==
    [c \in DOMAIN pair[1] \cup DOMAIN pair[2] |->
        IF c \in DOMAIN pair[2] THEN pair[2][c] ELSE pair[1][c]]

RECURSIVE Eval(_, _)
\* The rows of a relation as its operations are documented: a Selection
\* keeps the rows that satisfy its predicate, a Deduplication the first of
\* equal rows, a Slice the rows at start..stop-1, a Sort puts the rows in
\* the order of its terms, a Projection keeps columns, a Calculation adds
\* one, a Chain has the rows of the lhs and then those of the rhs, a Join
\* the pairs of rows that agree on the common columns and satisfy the
\* predicate.
Eval(r, table) ==
    CASE r.kind = "leaf" -> LeafRows(r, table)
      [] r.kind = "unary" ->
            LET rows == Eval(r.target, table)
                operation == r.operation
            IN  CASE operation.type = "Selection" ->
                        SelectSeq(rows, LAMBDA row : Holds(operation.predicate, row))
                  [] operation.type = "Deduplication" -> RowsOf(Distinct(Keyless(rows)))
                  [] operation.type = "Slice" ->
                        PySlice(rows, operation.start, operation.stop)
                  [] operation.type = "Sort" ->
                        RowsOf(StableSort(
                            [i \in DOMAIN rows |->
                                [row |-> rows[i],
                                 key |-> [j \in DOMAIN operation.terms |->
                                             LET v == Value(operation.terms[j].expression, rows[i])
                                             IN  IF operation.terms[j].ascending THEN v ELSE 0 - v]]]))
                  [] operation.type = "Projection" ->
                        [i \in DOMAIN rows |-> [c \in operation.columns |-> rows[i][c]]]
                  [] operation.type = "Calculation" ->
                        [i \in DOMAIN rows |->
                            [c \in DOMAIN rows[i] \cup {operation.tag} |->
                                IF c = operation.tag THEN Value(operation.expression, rows[i])
                                ELSE rows[i][c]]]
                  [] OTHER -> rows
      [] r.kind = "binary" ->
            IF r.operation.type = "Chain" THEN Eval(r.lhs, table) \o Eval(r.rhs, table)
            ELSE LET matching ==
                         SelectSeq(Pairs(Eval(r.lhs, table), Eval(r.rhs, table)),
                                   LAMBDA pair :
                                       /\ \A c \in r.operation.min_columns : pair[1][c] = pair[2][c]
                                       /\ \/ as_trivial(r.operation.predicate) = "True"
                                          \/ Holds(r.operation.predicate, Merged(pair)))
                 IN  [i \in DOMAIN matching |-> Merged(matching[i])]

RECURSIVE ColumnValue(_, _)
\* The value of a logical column for a row of the FROM clause.
ColumnValue(column, row) ==
    IF column.kind = "column" THEN row[column.name]
    ELSE LET of(c) == IF c \in column.expression.columns_required
                      THEN ColumnValue(column.over[c], row) ELSE 0
         IN  of("a") + of("b") + of("c")

\* The row of the FROM clause satisfies the SQL term of a predicate.
TermHolds(term, row) ==
    /\ ~term.predicate.is_false
    /\ \A c \in term.predicate.columns_required : ColumnValue(term.over[c], row) = 1

\* The key of a row of the FROM clause under ORDER BY terms.
OrderKey(order_by, row) ==
    [j \in DOMAIN order_by |->
        LET v == ColumnValue(order_by[j].expression, row)
        IN  IF order_by[j].ascending THEN v ELSE 0 - v]

\* OFFSET and LIMIT, where the statement has them, applied to items in
\* order; a negative LIMIT is taken to give no rows.
Limited(items, offset, limit) ==
    LET start == IF offset = NoneInt THEN 0 ELSE offset
    IN  PySlice(items, start,
                IF limit = None THEN NoneInt
                ELSE IF TheValue(limit) < 0 THEN start
                ELSE start + TheValue(limit))

RECURSIVE Execute(_, _)
\* The rows a database gives for a statement or a FROM clause: the rows of
\* the FROM clause in their order, less those that fail the WHERE terms,
\* each with the columns selected; then DISTINCT, ORDER BY, OFFSET and
\* LIMIT, in this order.
Execute(sql, table) ==
    CASE sql.kind = "table" -> LeafRows(sql.leaf, table)
      [] sql.kind = "subquery" -> Execute(sql.select, table)
      [] sql.kind = "join" ->
            LET matching ==
                    SelectSeq(Pairs(Execute(sql.lhs, table), Execute(sql.rhs, table)),
                              LAMBDA pair :
                                  /\ \A tag \in DOMAIN sql.on_common :
                                         ColumnValue(sql.on_common[tag][1], pair[1])
                                             = ColumnValue(sql.on_common[tag][2], pair[2])
                                  /\ \A i \in DOMAIN sql.on_terms :
                                         TermHolds(sql.on_terms[i], Merged(pair)))
            IN  [i \in DOMAIN matching |-> Merged(matching[i])]
      [] sql.kind = "select" ->
            LET from_rows == Execute(sql.from_clause, table)
                kept == SelectSeq(from_rows,
                                  LAMBDA row : \A i \in DOMAIN sql.where :
                                                   TermHolds(sql.where[i], row))
                selected == [i \in DOMAIN kept |->
                                [row |-> [tag \in DOMAIN sql.columns |->
                                             ColumnValue(sql.columns[tag], kept[i])],
                                 key |-> OrderKey(sql.order_by, kept[i])]]
                unique == IF sql.distinct THEN Distinct(selected) ELSE selected
            IN  RowsOf(Limited(StableSort(unique), sql.offset, sql.limit))
      [] sql.kind = "union" ->
            LET rows == Execute(sql.lhs, table) \o Execute(sql.rhs, table)
                items == [i \in DOMAIN rows |->
                             [row |-> rows[i], key |-> OrderKey(sql.order_by, rows[i])]]
                unique == IF sql.all THEN items ELSE Distinct(items)
            IN  RowsOf(Limited(StableSort(unique), sql.offset, sql.limit))

\* The tree is one the sql engine converts: every node is in that engine,
\* every leaf has the columns of the table, and there is no Materialization;
\* it has no Join, whose operands would share the columns of the table.
SqlTree(r) ==
    \A n \in Nodes(r) :
        /\ engine(n) = "sql"
        /\ n.kind = "leaf" => n.columns = {"a", "b"}
        /\ ~IsUnary(n, "Materialization")
        /\ n.kind = "binary" => n.operation.type = "Chain"

\* The table has as many rows as the leaves of the tree allow.
Fits(r, table) ==
    \A n \in Nodes(r) :
        n.kind = "leaf" =>
            /\ n.min_rows <= Len(table)
            /\ n.max_rows # NoneInt => Len(table) <= n.max_rows

\* to_executable was called on a tree the sql engine converts.
ExecutableAsked ==
    /\ call.made
    /\ call.operation.type = "to_executable"
    /\ SqlTree(call.targets[1])

\* The rows of slice[offset : offset + limit] of the rows of the relation
\* that to_executable was called on.
SliceOfRelation(table) ==
    PySlice(Eval(call.targets[1], table), call.operation.offset,
            IF call.operation.limit = None THEN NoneInt
            ELSE call.operation.offset + TheValue(call.operation.limit))

\* C29: the SELECT that to_executable(relation, offset, limit) returns gives,
\* whatever the rows of the table, the rows offset..offset+limit-1 of the
\* rows of the relation, none when limit is 0.
ExecutableSlicesRelation ==
    ExecutableAsked =>
        /\ ~IsError(call.result)
        /\ \A table \in Tables :
               Fits(call.targets[1], table)
                   => Execute(call.result, table) = SliceOfRelation(table)

\* The exceptions that apply() raises.
ApplyErrors == {"ColumnError", "EngineError", "RowOrderError"}

====
